---------------------------- MODULE Spec2Model ----------------------------
(***************************************************************************)
(* School planner client (src/src/App.tsx): the Document held in the       *)
(* React state `state`, the entity operations and the completion flow      *)
(* that mutate it, and the form state those handlers read.                  *)
(*                                                                         *)
(* Numbers.  Every point quantity (pointsPossible, pointsEarned,           *)
(* scoreEarned, scoreTotal, an amount typed in a form) is a fixed-point    *)
(* number with two decimals: the integer n stands for n/100.               *)
(* Clock.  uid() reads Date.now() and new Date() reads the same clock; the *)
(* model's clock is the number of uid() calls made so far plus one         *)
(* (`nextId`): a timestamp taken later is never smaller, and an id and a   *)
(* timestamp taken in the same call are the same number.                   *)
(* An optional field that is absent holds `undefined`; a React state that  *)
(* holds null holds `null`.                                                 *)
(*                                                                         *)
(* Handlers.  Every handler is an action.  The Modal component neither     *)
(* traps focus nor disables the page under it, and the task details modal  *)
(* stays mounted under the other modals, so a handler of the page can run  *)
(* while a form is open; the only guards are the ones the code has (a      *)
(* footer button exists only while its modal is open).                     *)
(*                                                                         *)
(* Persistence.  The load effect, the debounced save effect, the timers,   *)
(* the PUT requests in flight, the offline cache and the remote store are  *)
(* the second half of the state.  Spec is the Document and its forms with  *)
(* the persistence at rest; SyncSpec is the persistence, with the task     *)
(* form and deleteTask as the Document mutations.  Time is counted in      *)
(* steps of TickMs; a timer fires when its delay has run out, before time  *)
(* moves on, and a request can take any time.                              *)
(* NormSpec is the load over every body the store can hold, the user      *)
(* doing nothing.  A body is kept as parsed JSON: a key can be absent or   *)
(* hold a value of another type than the Document has there.               *)
(*                                                                         *)
(* File interchange.  Export and import are handlers of the earlier App    *)
(* (src/unnamed/part_003) only; LegacySpec is that App's load, save        *)
(* effect, settings inputs, export and import.                             *)
(*                                                                         *)
(* Toast.  The toast is modelled by its type while it is open; the text    *)
(* of its message is left out.                                             *)
(***************************************************************************)
EXTENDS Integers, Sequences, FiniteSets, TLC

----------------------------------------------------------------------------
(* Bounds of the model *)

\* uid() calls allowed in one behaviour: ids are 1..MaxIds
MaxIds == 3
\* tasks and courses held at once
MaxOwned == 2
\* grade items held when addGrade adds one more (two manual items can be held)
MaxGrades == 2
\* forms (task form, grade form, completion modal) open at once
MaxOpenForms == 1

\* debounce timers made in one behaviour of SyncSpec
MaxTimers == 3

\* the debounce delay of the save effect and the delay of the revert to idle
DebounceMs == 450
IdleMs == 900
\* the step of the model's clock
TickMs == DebounceMs \div 2
\* quietMs is not counted beyond this
QuietCap == DebounceMs + TickMs

----------------------------------------------------------------------------
(* Values *)

undefined == -1
null == -2
\* the "none" option of the course selects
none == 0
\* Number(text) or parseInt(text) of a text that is no number
NaN == -1000000000

IsNumber(v) == v # undefined /\ v # NaN

Min2(a, b) == IF a < b THEN a ELSE b
Max2(a, b) == IF a > b THEN a ELSE b

\* lib/date.ts clamp
clamp(n, a, b) == Max2(a, Min2(b, n))

\* App.tsx safeNum: Number(v), 0 when not finite.  A text is modelled by the
\* value Number gives it (NaN for a text that is no finite number).
safeNum(v) == IF v = NaN THEN 0 ELSE v

\* Math.round(x * 10) / 10 on two-decimal fixed point: Math.round rounds
\* half up (towards +infinity)
Round1(x) == ((x + 5) \div 10) * 10

\* s.map(f)
Map(f(_), s) == [i \in 1..Len(s) |-> f(s[i])]

\* s.filter(p)
Filter(p(_), s) == SelectSeq(s, p)

\* s.find(p) exists
Exists(p(_), s) == \E i \in 1..Len(s) : p(s[i])

\* s.find(p): the first element that satisfies p (only used when one exists)
Find(p(_), s) == s[CHOOSE i \in 1..Len(s) : p(s[i]) /\ \A j \in 1..(i - 1) : ~p(s[j])]

Range(s) == {s[i] : i \in 1..Len(s)}

----------------------------------------------------------------------------
(* Inputs the user can type or select *)

\* String.prototype.trim on the texts of the model
trim(v) == CASE v = "  " -> ""
             [] v = " HW " -> "HW"
             [] v = " Essay " -> "Essay"
             [] v = " Calc II " -> "Calc II"
             [] v = " ch. 3 " -> "ch. 3"
             [] OTHER -> v

\* the points field of the task form: the text and what parseInt(text, 10)
\* gives (whole points, two-decimal fixed point)
PointsTexts == {"", "abc", "-3", "1", "2"}
parseInt(v) == CASE v = "-3" -> -300
                 [] v = "0" -> 0
                 [] v = "1" -> 100
                 [] v = "2" -> 200
                 [] v = "3" -> 300
                 [] v = "90" -> 9000
                 [] OTHER -> NaN

\* x || 0 on a number: NaN and 0 are falsy
OrZero(v) == IF v = NaN \/ v = 0 THEN 0 ELSE v

\* v.trim() ? clamp(parseInt(v.trim(), 10) || 0, lo, hi) : undefined
\* (the number texts of the model have no blanks around them)
OptInt(v, lo, hi) == IF v = "" THEN undefined ELSE clamp(OrZero(parseInt(v)), lo, hi)

\* App.tsx parseTags: split on commas, trim, drop empties, keep 10
\* (it never returns an empty list: <<>> stands for undefined)
parseTags(raw) == IF raw = "lab, ,exam" THEN <<"lab", "exam">> ELSE <<>>

\* lib/date.ts toISOFromDatetimeLocal: a datetime-local text is modelled by the
\* timestamp it denotes, "" and unparseable texts by undefined
toISOFromDatetimeLocal(v) == IF v = undefined THEN undefined ELSE v

\* v.trim() || undefined (it never returns an empty text: "" stands for undefined)
OptText(v) == trim(v)

\* the texts of the task form other than the points: two ways of filling
\* them in, and two titles that trim() rejects
TaskTexts ==
    {[title |-> "HW1", due |-> undefined, priority |-> "medium", notes |-> "", tags |-> "", estimate |-> ""],
     [title |-> " Essay ", due |-> 1, priority |-> "high", notes |-> " ch. 3 ", tags |-> "lab, ,exam", estimate |-> "90"],
     [title |-> "", due |-> undefined, priority |-> "medium", notes |-> "", tags |-> "", estimate |-> ""],
     [title |-> "  ", due |-> 1, priority |-> "low", notes |-> "", tags |-> "", estimate |-> "abc"]}

\* amounts typed in the "Points earned" field of the completion modal, by the
\* value Number gives them
AmountTexts == {NaN, -50, 125, 250}

\* the texts of the grade form (a number field by the value Number gives its
\* text, an empty weight or due field by undefined): two fillings addGrade
\* accepts and the ones it rejects
GradeTexts ==
    {[name |-> "HW1", earned |-> 125, total |-> 200, weight |-> undefined, due |-> undefined],
     [name |-> " Essay ", earned |-> -50, total |-> 250, weight |-> 5000, due |-> 1],
     [name |-> "  ", earned |-> 0, total |-> 200, weight |-> undefined, due |-> undefined],
     [name |-> "HW1", earned |-> NaN, total |-> 200, weight |-> undefined, due |-> undefined],
     [name |-> "HW1", earned |-> 0, total |-> NaN, weight |-> undefined, due |-> undefined],
     [name |-> "HW1", earned |-> 0, total |-> 0, weight |-> undefined, due |-> undefined],
     [name |-> "HW1", earned |-> 0, total |-> -50, weight |-> undefined, due |-> undefined]}

\* the name and credits fields of the course form
CourseNameTexts == {"", "  ", " Calc II "}
CreditsTexts == {"3"}

----------------------------------------------------------------------------
(* Document *)

DEFAULT_STATE ==
    [version |-> 2,
     courses |-> <<>>,
     tasks |-> <<>>,
     grades |-> <<>>,
     settings |-> [semesterName |-> "Semester", weekStartsOn |-> 1,
                   theme |-> "light", defaultView |-> "dashboard"]]

VARIABLES
    state,            \* the Document (useState<AppState>)
    nextId,           \* uid(): the next fresh id; the clock of new Date()
    taskModalOpen, editingTaskId, taskCourse,      \* task form
    gradeModalOpen, gradeCourse,                   \* grade form
    completeOpen, completeTaskId, completeEarned   \* completion modal

VARIABLES
    loading,          \* useState(true): the initial load is pending
    sync,             \* the sync status
    effectPending,    \* a render with a new `state` or `loading` is committed
                      \* and the save effect has not run for it yet
    debounced,        \* debounced.current: a timer id, 0 for null
    timerSeq,         \* the debounce timers made so far (the last timer id)
    saveTimers,       \* the debounce timers that are pending
    idleTimers,       \* the pending setSync("idle") timers: their remaining ms
    puts,             \* the PUT requests in flight
    cache,            \* the offline cache (localStorage): <<>> or <<Document>>
    remote,           \* the server's app_state key: <<>> or <<Document>>
    quietMs,          \* ms since the save effect last ran (at most QuietCap)
    failure           \* whether a PUT failed, and whether the save effect ran since

docVars == <<state, nextId, taskModalOpen, editingTaskId, taskCourse,
             gradeModalOpen, gradeCourse, completeOpen, completeTaskId, completeEarned>>

syncVars == <<loading, sync, effectPending, debounced, timerSeq, saveTimers, idleTimers,
              puts, cache, remote, quietMs, failure>>

VARIABLES
    toast,            \* the toast: "none" while closed, else its type
    downloaded,       \* the file exportJSON wrote last: <<>> or <<its JSON>>
    alerted           \* the alert of importJSON is on the screen

fileVars == <<downloaded, alerted>>

VARIABLES
    search, filterCourse, filterStatus, filterPriority, sortMode,   \* task list controls
    clock,            \* the time new Date() reads in the views, in hours
    zone,             \* the local time zone: the day whose length is not 24 h
    apiKey            \* PLANNER_API_KEY of the server, "" when it is not set

viewVars == <<search, filterCourse, filterStatus, filterPriority, sortMode, clock, zone>>

vars == <<docVars, syncVars, toast, fileVars, viewVars, apiKey>>

\* the "All courses" option of the course filter
all == -4

\* the task list controls as the App starts; noon of day 0 in a zone where
\* every day has 24 hours
ViewInit ==
    /\ search = ""
    /\ filterCourse = all
    /\ filterStatus = "all"
    /\ filterPriority = "all"
    /\ sortMode = "due"
    /\ clock = 12
    /\ zone = [day |-> 0, shift |-> 0]

taskForm == <<taskModalOpen, editingTaskId, taskCourse>>
gradeForm == <<gradeModalOpen, gradeCourse>>
completeForm == <<completeOpen, completeTaskId, completeEarned>>

Init ==
    /\ state = DEFAULT_STATE
    /\ nextId = 1
    /\ taskModalOpen = FALSE
    /\ editingTaskId = null
    /\ taskCourse = none
    /\ gradeModalOpen = FALSE
    /\ gradeCourse = none
    /\ completeOpen = FALSE
    /\ completeTaskId = null
    /\ completeEarned = 0
    /\ loading = FALSE
    /\ sync = "idle"
    /\ effectPending = FALSE
    /\ debounced = 0
    /\ timerSeq = 0
    /\ saveTimers = {}
    /\ idleTimers = <<>>
    /\ puts = {}
    /\ cache = <<>>
    /\ remote = <<>>
    /\ quietMs = QuietCap
    /\ failure = "none"
    /\ toast = "none"
    /\ downloaded = <<>>
    /\ alerted = FALSE
    /\ ViewInit
    /\ apiKey = ""

----------------------------------------------------------------------------
(* Entity operations: the updater functions handed to setState *)

TaskIds(s) == {s.tasks[i].id : i \in 1..Len(s.tasks)}
CourseIds(s) == {s.courses[i].id : i \in 1..Len(s.courses)}
GradeIds(s) == {s.grades[i].id : i \in 1..Len(s.grades)}

\* the derived GradeItem literal of saveTask and applyTaskDone
\* (found: whether nextGrades.find gave an item, existing: that item)
DerivedItem(found, existing, t, earned, total, gid, nowISO) ==
    [id |-> IF found THEN existing.id ELSE gid,
     taskId |-> t.id,
     courseId |-> t.courseId,
     name |-> t.title,
     scoreEarned |-> clamp(earned, 0, total),
     scoreTotal |-> total,
     weight |-> undefined,
     dueISO |-> t.dueISO,
     createdISO |-> IF found THEN existing.createdISO ELSE nowISO]

\* mutant of UpsertGrade: the item is put in front whether or not one exists
UpsertGrade_Prepend(grades, t, earned, total, gid, nowISO) ==
    LET linked(g) == g.taskId = t.id
        found == Exists(linked, grades)
        item == DerivedItem(found, Find(linked, grades), t, earned, total, gid, nowISO)
    IN  <<item>> \o grades

\* existing ? nextGrades.map(g => g.taskId === id ? item : g) : [item, ...nextGrades]
UpsertGrade(grades, t, earned, total, gid, nowISO) ==
    LET linked(g) == g.taskId = t.id
        found == Exists(linked, grades)
        item == DerivedItem(found, Find(linked, grades), t, earned, total, gid, nowISO)
        put(g) == IF g.taskId = t.id THEN item ELSE g
    IN  IF found THEN Map(put, grades) ELSE <<item>> \o grades

\* sum(nums): nums.reduce((a, b) => a + b, 0)
RECURSIVE sum(_)
sum(nums) == IF nums = <<>> THEN 0 ELSE Head(nums) + sum(Tail(nums))

\* the values of byCourse for the keys in `keys`, summed field by field
RECURSIVE sumValues(_, _)
sumValues(byCourse, keys) ==
    IF keys = {} THEN 0
    ELSE LET k == CHOOSE k \in keys : TRUE
         IN  byCourse[k] + sumValues(byCourse, keys \ {k})

\* const cid = g.courseId ?? "none"
cid(g) == IF g.courseId = undefined THEN none ELSE g.courseId

\* (earned / Math.max(1, total)) * w, in hundredths (exact for the amounts
\* of the model)
weighted(g) == (OrZero(g.scoreEarned) * g.weight) \div Max2(100, OrZero(g.scoreTotal))

\* mutant of gradeStats: the weight scales the raw points
gradeStats_Blended(grades) ==
    LET keys == {cid(grades[i]) : i \in 1..Len(grades)}
        of(k) == Filter(LAMBDA g : cid(g) = k, grades)
        declared(k) == Filter(LAMBDA g : IsNumber(g.weight), of(k))
        earned(g) == IF IsNumber(g.weight) THEN weighted(g) ELSE OrZero(g.scoreEarned)
        byCourse == [k \in keys |->
                        [earned |-> sum(Map(earned, of(k))),
                         total |-> sum(Map(LAMBDA g : OrZero(g.scoreTotal), of(k))),
                         weightedEarned |-> sum(Map(weighted, declared(k))),
                         weightedTotal |-> sum(Map(LAMBDA g : g.weight, declared(k)))]]
    IN  [byCourse |-> byCourse,
         overallEarned |-> sumValues([k \in keys |-> byCourse[k].earned], keys),
         overallTotal |-> sumValues([k \in keys |-> byCourse[k].total], keys)]

\* gradeStats: the loop adds each item to the entry of its key, so an entry
\* holds the sums over the items of that key
gradeStats(grades) ==
    LET keys == {cid(grades[i]) : i \in 1..Len(grades)}
        of(k) == Filter(LAMBDA g : cid(g) = k, grades)
        declared(k) == Filter(LAMBDA g : IsNumber(g.weight), of(k))
        byCourse == [k \in keys |->
                        [earned |-> sum(Map(LAMBDA g : OrZero(g.scoreEarned), of(k))),
                         total |-> sum(Map(LAMBDA g : OrZero(g.scoreTotal), of(k))),
                         weightedEarned |-> sum(Map(weighted, declared(k))),
                         weightedTotal |-> sum(Map(LAMBDA g : g.weight, declared(k)))]]
    IN  [byCourse |-> byCourse,
         overallEarned |-> sumValues([k \in keys |-> byCourse[k].earned], keys),
         overallTotal |-> sumValues([k \in keys |-> byCourse[k].total], keys)]

\* mutant of UnlinkGrades: the linked items are kept
UnlinkGrades_Keep(grades, id) == grades

\* mutant of UnlinkGrades: the manual items go with the linked ones
UnlinkGrades_DropManual(grades, id) ==
    LET other(g) == g.taskId # id /\ g.taskId # undefined IN Filter(other, grades)

\* nextGrades.filter(g => g.taskId !== id)
UnlinkGrades(grades, id) ==
    LET other(g) == g.taskId # id IN Filter(other, grades)

\* saveTask, new task: the task literal
NewTask(id, f, nowISO) ==
    [id |-> id,
     title |-> trim(f.title),
     courseId |-> IF f.course = none THEN undefined ELSE f.course,
     dueISO |-> toISOFromDatetimeLocal(f.due),
     priority |-> f.priority,
     notes |-> OptText(f.notes),
     done |-> FALSE,
     createdISO |-> nowISO,
     tags |-> parseTags(f.tags),
     estimateMinutes |-> OptInt(f.estimate, 0, 999900),
     pointsPossible |-> OptInt(f.points, 0, 99999900),
     pointsEarned |-> undefined,
     completedISO |-> undefined]

\* saveTask, new task: setState(s => ({...s, tasks: [newTask, ...s.tasks]}))
AddTaskDoc(s, id, f, nowISO) ==
    [s EXCEPT !.tasks = <<NewTask(id, f, nowISO)>> \o s.tasks]

\* mutant of NextEarned: pointsEarned is not clamped to the new ceiling
NextEarned_NoClamp(t, pts) == t.pointsEarned

\* saveTask, edit: nextEarned
NextEarned(t, pts) ==
    IF IsNumber(t.pointsEarned) /\ IsNumber(pts) THEN clamp(t.pointsEarned, 0, pts) ELSE t.pointsEarned

\* saveTask, edit: the `updated` task literal
UpdatedTask(t, f) ==
    LET pts == OptInt(f.points, 0, 99999900)
    IN  [t EXCEPT
           !.title = trim(f.title),
           !.courseId = IF f.course = none THEN undefined ELSE f.course,
           !.dueISO = toISOFromDatetimeLocal(f.due),
           !.priority = f.priority,
           !.notes = OptText(f.notes),
           !.tags = parseTags(f.tags),
           !.estimateMinutes = OptInt(f.estimate, 0, 999900),
           !.pointsPossible = pts,
           !.pointsEarned = NextEarned(t, pts)]

\* saveTask, edit: whether the updater calls uid("grade")
UpdateNeedsId(s, id, f) ==
    /\ id \in TaskIds(s)
    /\ LET isT(t) == t.id = id
           u == UpdatedTask(Find(isT, s.tasks), f)
           linked(g) == g.taskId = id
       IN  /\ u.done
           /\ IsNumber(u.pointsPossible) /\ u.pointsPossible > 0 /\ IsNumber(u.pointsEarned)
           /\ ~Exists(linked, s.grades)

\* saveTask, edit: the grades after the update of task `updated`
SyncGrades(grades, updated, gid, nowISO) ==
    IF updated.done
    THEN IF /\ IsNumber(updated.pointsPossible)
            /\ updated.pointsPossible > 0
            /\ IsNumber(updated.pointsEarned)
         THEN UpsertGrade(grades, updated, updated.pointsEarned, updated.pointsPossible, gid, nowISO)
         ELSE UnlinkGrades(grades, updated.id)
    ELSE grades

\* saveTask, edit: the updater
UpdateTaskDoc(s, id, f, gid, nowISO) ==
    LET isT(t) == t.id = id
        edit(t) == IF t.id # id THEN t ELSE UpdatedTask(t, f)
        nextTasks == Map(edit, s.tasks)
    IN  IF Exists(isT, s.tasks)
        THEN [s EXCEPT !.tasks = nextTasks,
                       !.grades = SyncGrades(s.grades, Find(isT, nextTasks), gid, nowISO)]
        ELSE s

\* applyTaskDone(id, true, earned): ptsEarned
PtsEarned(t, earned) ==
    IF IsNumber(earned) THEN earned
    ELSE IF IsNumber(t.pointsEarned) THEN t.pointsEarned
    ELSE IF IsNumber(t.pointsPossible) THEN clamp(t.pointsPossible, 0, 99999900)
    ELSE undefined

\* applyTaskDone(id, true, earned): the task after it
DoneTask(x, earned, nowISO) ==
    [x EXCEPT !.done = TRUE, !.pointsEarned = PtsEarned(x, earned), !.completedISO = nowISO]

\* mutant of UndoneTask: completedISO is not cleared
UndoneTask_KeepCompleted(x) ==
    [x EXCEPT !.done = FALSE, !.pointsEarned = undefined]

\* mutant of UndoneTask: pointsEarned is not cleared
UndoneTask_KeepEarned(x) ==
    [x EXCEPT !.done = FALSE, !.completedISO = undefined]

\* applyTaskDone(id, false): the task after it
UndoneTask(x) ==
    [x EXCEPT !.done = FALSE, !.pointsEarned = undefined, !.completedISO = undefined]

\* mutant of DoneGrades: no GradeItem is derived on completion
DoneGrades_Never(grades, t, earned, gid, nowISO) == grades

\* applyTaskDone(id, true, earned): nextGrades
DoneGrades(grades, t, earned, gid, nowISO) ==
    LET ptsPossible == t.pointsPossible
        ptsEarned == PtsEarned(t, earned)
    IN  IF IsNumber(ptsPossible) /\ ptsPossible > 0 /\ IsNumber(ptsEarned)
        THEN UpsertGrade(grades, t, ptsEarned, ptsPossible, gid, nowISO)
        ELSE grades

\* applyTaskDone: the updater
ApplyTaskDone(s, id, done, earned, gid, nowISO) ==
    LET isT(x) == x.id = id
        t == Find(isT, s.tasks)
        undo(x) == IF x.id = id THEN UndoneTask(x) ELSE x
        finish(x) == IF x.id = id THEN DoneTask(x, earned, nowISO) ELSE x
    IN  IF ~Exists(isT, s.tasks) THEN s
        ELSE IF ~done
        THEN [s EXCEPT !.tasks = Map(undo, s.tasks),
                       !.grades = UnlinkGrades(s.grades, id)]
        ELSE [s EXCEPT !.tasks = Map(finish, s.tasks),
                       !.grades = DoneGrades(s.grades, t, earned, gid, nowISO)]

\* applyTaskDone(id, true, earned): whether the updater calls uid("grade")
DoneNeedsId(s, id, earned) ==
    /\ id \in TaskIds(s)
    /\ LET isT(x) == x.id = id
           t == Find(isT, s.tasks)
           linked(g) == g.taskId = id
       IN  /\ IsNumber(t.pointsPossible) /\ t.pointsPossible > 0
           /\ IsNumber(PtsEarned(t, earned))
           /\ ~Exists(linked, s.grades)

\* mutant of ConfirmedEarned: the amount is clamped but not rounded
ConfirmedEarned_NoRound(t, entered) ==
    LET total == IF IsNumber(t.pointsPossible) THEN t.pointsPossible ELSE 0
    IN  clamp(safeNum(entered), 0, total)

\* confirmComplete: the amount handed to applyTaskDone
ConfirmedEarned(t, entered) ==
    LET total == IF IsNumber(t.pointsPossible) THEN t.pointsPossible ELSE 0
    IN  clamp(Round1(safeNum(entered)), 0, total)

\* mutant of DeleteTaskDoc: every derived GradeItem goes with the task
DeleteTaskDoc_AllDerived(s, id) ==
    LET keep(t) == t.id # id
        manual(g) == g.taskId = undefined
    IN  [s EXCEPT !.tasks = Filter(keep, s.tasks),
                  !.grades = Filter(manual, s.grades)]

\* deleteTask: the updater
DeleteTaskDoc(s, id) ==
    LET keep(t) == t.id # id
    IN  [s EXCEPT !.tasks = Filter(keep, s.tasks),
                  !.grades = UnlinkGrades(s.grades, id)]

\* addCourse: the course literal and the updater
AddCourseDoc(s, id, name, credits) ==
    LET c == [id |-> id, name |-> trim(name), color |-> "#3b82f6",
              credits |-> OptInt(credits, 0, 3000)]
    IN  [s EXCEPT !.courses = <<c>> \o s.courses]

\* mutant of DeleteCourseDoc: the courseId of the grade items is not cleared
DeleteCourseDoc_TasksOnly(s, id) ==
    LET keep(c) == c.id # id
        clear(x) == IF x.courseId = id THEN [x EXCEPT !.courseId = undefined] ELSE x
    IN  [s EXCEPT !.courses = Filter(keep, s.courses),
                  !.tasks = Map(clear, s.tasks)]

\* mutant of DeleteCourseDoc: the tasks of the course are deleted with it
DeleteCourseDoc_Cascade(s, id) ==
    LET keep(c) == c.id # id
        other(x) == x.courseId # id
        clear(x) == IF x.courseId = id THEN [x EXCEPT !.courseId = undefined] ELSE x
    IN  [s EXCEPT !.courses = Filter(keep, s.courses),
                  !.tasks = Filter(other, s.tasks),
                  !.grades = Map(clear, s.grades)]

\* deleteCourse: the updater
DeleteCourseDoc(s, id) ==
    LET keep(c) == c.id # id
        clear(x) == IF x.courseId = id THEN [x EXCEPT !.courseId = undefined] ELSE x
    IN  [s EXCEPT !.courses = Filter(keep, s.courses),
                  !.tasks = Map(clear, s.tasks),
                  !.grades = Map(clear, s.grades)]

\* addGrade: the grade literal and the updater
AddGradeDoc(s, id, f, nowISO) ==
    LET g == [id |-> id,
              courseId |-> IF f.course = none THEN undefined ELSE f.course,
              name |-> trim(f.name),
              scoreEarned |-> f.earned,
              scoreTotal |-> f.total,
              weight |-> IF f.weight = undefined THEN undefined ELSE clamp(f.weight, 0, 10000),
              dueISO |-> toISOFromDatetimeLocal(f.due),
              taskId |-> undefined,
              createdISO |-> nowISO]
    IN  [s EXCEPT !.grades = <<g>> \o s.grades]

\* deleteGrade: the updater
DeleteGradeDoc(s, id) ==
    LET keep(g) == g.id # id
    IN  [s EXCEPT !.grades = Filter(keep, s.grades)]


----------------------------------------------------------------------------
(* Handlers                                                                *)
(* editingTaskId and taskCourse are read only while the task form is open  *)
(* and both are set when it opens; gradeCourse likewise (resetGradeForm);  *)
(* completeEarned is read only while the completion modal is open and is   *)
(* set when it opens.  The model resets them when the form closes, which   *)
(* no handler can observe.  Typing the earned amount is part of the        *)
(* confirm step.                                                           *)

\* the number of forms that are open
OpenForms ==
    (IF taskModalOpen THEN 1 ELSE 0) + (IF gradeModalOpen THEN 1 ELSE 0)
        + (IF completeOpen THEN 1 ELSE 0)

TaskOf(id) == LET isT(t) == t.id = id IN Find(isT, state.tasks)

\* the texts of the task form at the time saveTask runs
\* (a form whose title saveTask rejects is tried with one points text)
TaskForms ==
    {f \in {[title |-> tx.title, course |-> taskCourse, due |-> tx.due, points |-> pt,
             priority |-> tx.priority, notes |-> tx.notes, tags |-> tx.tags,
             estimate |-> tx.estimate] : tx \in TaskTexts, pt \in PointsTexts} :
        trim(f.title) = "" => f.points = ""}

\* the texts of the grade form at the time addGrade runs
GradeForms ==
    {[name |-> tx.name, course |-> gradeCourse, earned |-> tx.earned, total |-> tx.total,
      weight |-> tx.weight, due |-> tx.due] : tx \in GradeTexts}

\* new Date().toISOString()
now == nextId

openNewTask ==
    /\ taskModalOpen \/ OpenForms < MaxOpenForms
    /\ editingTaskId' = null
    /\ taskCourse' = none
    /\ taskModalOpen' = TRUE
    /\ UNCHANGED <<state, nextId, gradeForm, completeForm, toast>>

openEditTask(id) ==
    /\ id \in TaskIds(state)
    /\ taskModalOpen \/ OpenForms < MaxOpenForms
    /\ editingTaskId' = id
    /\ taskCourse' = IF TaskOf(id).courseId = undefined THEN none ELSE TaskOf(id).courseId
    /\ taskModalOpen' = TRUE
    /\ UNCHANGED <<state, nextId, gradeForm, completeForm, toast>>

\* the course select of the task form: its options are "none" and the courses
setTaskCourse(c) ==
    /\ taskModalOpen
    /\ c \in {none} \cup CourseIds(state)
    /\ taskCourse' = c
    /\ UNCHANGED <<state, nextId, taskModalOpen, editingTaskId, gradeForm, completeForm, toast>>

\* Cancel / Esc of the task form
closeTaskModal ==
    /\ taskModalOpen
    /\ taskModalOpen' = FALSE
    /\ editingTaskId' = null
    /\ taskCourse' = none
    /\ UNCHANGED <<state, nextId, gradeForm, completeForm, toast>>

\* saveTask with an empty title: the toast, nothing else
saveTaskRejected(f) ==
    /\ taskModalOpen
    /\ trim(f.title) = ""
    /\ toast' = "error"
    /\ UNCHANGED docVars

\* saveTask, editingTaskId set
saveTaskEdit(f) ==
    /\ taskModalOpen
    /\ trim(f.title) # ""
    /\ editingTaskId # null
    /\ UpdateNeedsId(state, editingTaskId, f) => nextId <= MaxIds
    /\ state' = UpdateTaskDoc(state, editingTaskId, f, nextId, now)
    /\ nextId' = IF UpdateNeedsId(state, editingTaskId, f) THEN nextId + 1 ELSE nextId
    /\ taskModalOpen' = FALSE
    /\ editingTaskId' = null
    /\ taskCourse' = none
    /\ UNCHANGED <<gradeForm, completeForm, toast>>

\* saveTask, editingTaskId null
saveTaskNew(f) ==
    /\ taskModalOpen
    /\ trim(f.title) # ""
    /\ editingTaskId = null
    /\ nextId <= MaxIds
    /\ Len(state.tasks) + Len(state.courses) < MaxOwned
    /\ state' = AddTaskDoc(state, nextId, f, now)
    /\ nextId' = nextId + 1
    /\ taskModalOpen' = FALSE
    /\ editingTaskId' = null
    /\ taskCourse' = none
    /\ UNCHANGED <<gradeForm, completeForm, toast>>

saveTask == \E f \in TaskForms : saveTaskRejected(f) \/ saveTaskEdit(f) \/ saveTaskNew(f)

\* toggleTask on a done task: undo
toggleTaskUndo(id) ==
    /\ id \in TaskIds(state)
    /\ TaskOf(id).done
    /\ state' = ApplyTaskDone(state, id, FALSE, undefined, nextId, now)
    /\ UNCHANGED <<nextId, taskForm, gradeForm, completeForm, toast>>

\* mutant of toggleTaskDirect: a task with points is completed at once too
toggleTaskDirect_AnyPoints(id) ==
    /\ id \in TaskIds(state)
    /\ ~TaskOf(id).done
    /\ DoneNeedsId(state, id, undefined) => nextId <= MaxIds
    /\ state' = ApplyTaskDone(state, id, TRUE, undefined, nextId, now)
    /\ nextId' = IF DoneNeedsId(state, id, undefined) THEN nextId + 1 ELSE nextId
    /\ UNCHANGED <<taskForm, gradeForm, completeForm, toast>>

\* toggleTask on an open task without positive points: beginCompleteTask
\* completes it at once
toggleTaskDirect(id) ==
    /\ id \in TaskIds(state)
    /\ ~TaskOf(id).done
    /\ ~IsNumber(TaskOf(id).pointsPossible) \/ TaskOf(id).pointsPossible <= 0
    /\ DoneNeedsId(state, id, undefined) => nextId <= MaxIds
    /\ state' = ApplyTaskDone(state, id, TRUE, undefined, nextId, now)
    /\ nextId' = IF DoneNeedsId(state, id, undefined) THEN nextId + 1 ELSE nextId
    /\ UNCHANGED <<taskForm, gradeForm, completeForm, toast>>

\* toggleTask on an open task with positive points: beginCompleteTask opens
\* the completion modal
toggleTaskAsk(id) ==
    /\ id \in TaskIds(state)
    /\ ~TaskOf(id).done
    /\ IsNumber(TaskOf(id).pointsPossible) /\ TaskOf(id).pointsPossible > 0
    /\ completeOpen \/ OpenForms < MaxOpenForms
    /\ completeTaskId' = id
    /\ completeEarned' = IF IsNumber(TaskOf(id).pointsEarned)
                         THEN TaskOf(id).pointsEarned ELSE TaskOf(id).pointsPossible
    /\ completeOpen' = TRUE
    /\ UNCHANGED <<state, nextId, taskForm, gradeForm, toast>>

toggleTask == \E id \in TaskIds(state) : toggleTaskUndo(id) \/ toggleTaskDirect(id) \/ toggleTaskAsk(id)

\* Cancel / Esc of the completion modal
cancelComplete ==
    /\ completeOpen
    /\ completeOpen' = FALSE
    /\ completeTaskId' = null
    /\ completeEarned' = 0
    /\ UNCHANGED <<state, nextId, taskForm, gradeForm, toast>>

\* confirmComplete with `entered` in the "Points earned" field (the amount
\* the modal opened with, or one typed over it); it returns early when the
\* task is gone
confirmComplete(entered) ==
    /\ completeOpen
    /\ completeTaskId # null
    /\ completeTaskId \in TaskIds(state)
    /\ LET earned == ConfirmedEarned(TaskOf(completeTaskId), entered)
       IN  /\ DoneNeedsId(state, completeTaskId, earned) => nextId <= MaxIds
           /\ state' = ApplyTaskDone(state, completeTaskId, TRUE, earned, nextId, now)
           /\ nextId' = IF DoneNeedsId(state, completeTaskId, earned) THEN nextId + 1 ELSE nextId
    /\ completeOpen' = FALSE
    /\ completeTaskId' = null
    /\ completeEarned' = 0
    /\ UNCHANGED <<taskForm, gradeForm, toast>>

deleteTask(id) ==
    /\ id \in TaskIds(state)
    /\ state' = DeleteTaskDoc(state, id)
    /\ UNCHANGED <<nextId, taskForm, gradeForm, completeForm, toast>>

\* addCourse with an empty name: the toast, nothing else
addCourseRejected(name) ==
    /\ trim(name) = ""
    /\ toast' = "error"
    /\ UNCHANGED docVars

\* mutant of addCourse: the name is not looked at
addCourse_AnyName(name, credits) ==
    /\ nextId <= MaxIds
    /\ Len(state.tasks) + Len(state.courses) < MaxOwned
    /\ state' = AddCourseDoc(state, nextId, name, credits)
    /\ nextId' = nextId + 1
    /\ UNCHANGED <<taskForm, gradeForm, completeForm, toast>>

addCourse(name, credits) ==
    /\ trim(name) # ""
    /\ nextId <= MaxIds
    /\ Len(state.tasks) + Len(state.courses) < MaxOwned
    /\ state' = AddCourseDoc(state, nextId, name, credits)
    /\ nextId' = nextId + 1
    /\ UNCHANGED <<taskForm, gradeForm, completeForm, toast>>

deleteCourse(id) ==
    /\ id \in CourseIds(state)
    /\ state' = DeleteCourseDoc(state, id)
    /\ UNCHANGED <<nextId, taskForm, gradeForm, completeForm, toast>>

\* "Add grade": resetGradeForm(); setGradeModalOpen(true)
openGradeModal ==
    /\ gradeModalOpen \/ OpenForms < MaxOpenForms
    /\ gradeCourse' = none
    /\ gradeModalOpen' = TRUE
    /\ UNCHANGED <<state, nextId, taskForm, completeForm, toast>>

\* the course select of the grade form
setGradeCourse(c) ==
    /\ gradeModalOpen
    /\ c \in {none} \cup CourseIds(state)
    /\ gradeCourse' = c
    /\ UNCHANGED <<state, nextId, taskForm, gradeModalOpen, completeForm, toast>>

closeGradeModal ==
    /\ gradeModalOpen
    /\ gradeModalOpen' = FALSE
    /\ gradeCourse' = none
    /\ UNCHANGED <<state, nextId, taskForm, completeForm, toast>>

\* mutant of GradeFormValid: the total is not compared with 0
GradeFormValid_AnyTotal(f) ==
    /\ trim(f.name) # ""
    /\ f.earned # NaN /\ f.total # NaN

\* addGrade: the two validations
GradeFormValid(f) ==
    /\ trim(f.name) # ""
    /\ f.earned # NaN /\ f.total # NaN /\ f.total > 0

addGradeRejected(f) ==
    /\ gradeModalOpen
    /\ ~GradeFormValid(f)
    /\ toast' = "error"
    /\ UNCHANGED docVars

addGradeAccepted(f) ==
    /\ gradeModalOpen
    /\ GradeFormValid(f)
    /\ nextId <= MaxIds
    /\ Len(state.grades) < MaxGrades
    /\ state' = AddGradeDoc(state, nextId, f, now)
    /\ nextId' = nextId + 1
    /\ gradeModalOpen' = FALSE
    /\ gradeCourse' = none
    /\ UNCHANGED <<taskForm, completeForm, toast>>

addGrade == \E f \in GradeForms : addGradeRejected(f) \/ addGradeAccepted(f)

deleteGrade(id) ==
    /\ id \in GradeIds(state)
    /\ state' = DeleteGradeDoc(state, id)
    /\ UNCHANGED <<nextId, taskForm, gradeForm, completeForm, toast>>

\* the toast is closed (its onClose, by the user or by its timer)
closeToast ==
    /\ toast # "none"
    /\ toast' = "none"
    /\ UNCHANGED docVars

Ids == 1..MaxIds

\* the persistence is at rest
Frozen == UNCHANGED <<syncVars, fileVars, viewVars, apiKey>>

Next ==
    \/ openNewTask /\ Frozen
    \/ (\E id \in Ids : openEditTask(id)) /\ Frozen
    \/ (\E c \in {none} \cup Ids : setTaskCourse(c)) /\ Frozen
    \/ closeTaskModal /\ Frozen
    \/ saveTask /\ Frozen
    \/ toggleTask /\ Frozen
    \/ cancelComplete /\ Frozen
    \/ (\E entered \in AmountTexts \cup {completeEarned} : confirmComplete(entered)) /\ Frozen
    \/ (\E id \in Ids : deleteTask(id)) /\ Frozen
    \/ (\E name \in CourseNameTexts : addCourseRejected(name)) /\ Frozen
    \/ (\E name \in CourseNameTexts, credits \in CreditsTexts : addCourse(name, credits)) /\ Frozen
    \/ (\E id \in Ids : deleteCourse(id)) /\ Frozen
    \/ openGradeModal /\ Frozen
    \/ (\E c \in {none} \cup Ids : setGradeCourse(c)) /\ Frozen
    \/ closeGradeModal /\ Frozen
    \/ addGrade /\ Frozen
    \/ (\E id \in Ids : deleteGrade(id)) /\ Frozen
    \/ closeToast /\ Frozen

Spec == Init /\ [][Next]_vars

----------------------------------------------------------------------------
(* Persistence: the load effect, the save effect, the timers, the requests *)

\* api/state.go defaultState(): what GET answers while nothing is stored
defaultState ==
    [version |-> 1,
     courses |-> <<>>,
     tasks |-> <<>>,
     grades |-> <<>>,
     settings |-> [semesterName |-> "Semester", weekStartsOn |-> 1,
                   theme |-> "light", defaultView |-> "dashboard"]]

\* a JSON value that is present and is no number (a string, a boolean, null)
NotNumber == -3
\* a JSON key that is absent, where the value would be a string
missing == "(undefined)"

\* typeof v === "number", of a value read from parsed JSON (NaN is not JSON)
TypeofNumber(v) == v # undefined /\ v # null /\ v # NotNumber

\* A parsed JSON body is a record: `kind` is "object", "array", "null" or
\* "other" (a number, a string, a boolean); version is a number, NotNumber or undefined
\* (absent); courses, tasks and grades are [kind, items] with kind "array",
\* "other" (present, no array) or "absent"; settings is [kind, semesterName,
\* weekStartsOn, theme, defaultView] with kind "object", "other" or "absent"
\* and with missing / undefined for the keys it does not have.
AbsentArray == [kind |-> "absent", items |-> <<>>]
OtherArray == [kind |-> "other", items |-> <<>>]
NoSettings(k) ==
    [kind |-> k, semesterName |-> missing, weekStartsOn |-> undefined,
     theme |-> missing, defaultView |-> missing]
NoBody(k) ==
    [kind |-> k, version |-> undefined, courses |-> AbsentArray, tasks |-> AbsentArray,
     grades |-> AbsentArray, settings |-> NoSettings("absent")]

\* a Document of the app as the `data` of a merge (the object itself)
Body(doc) ==
    [kind |-> "object",
     version |-> doc.version,
     courses |-> [kind |-> "array", items |-> doc.courses],
     tasks |-> [kind |-> "array", items |-> doc.tasks],
     grades |-> [kind |-> "array", items |-> doc.grades],
     settings |-> [kind |-> "object",
                   semesterName |-> doc.settings.semesterName,
                   weekStartsOn |-> doc.settings.weekStartsOn,
                   theme |-> doc.settings.theme,
                   defaultView |-> doc.settings.defaultView]]

\* JSON.stringify of a number: NaN is written as null
JSONNumber(v) == IF v = NaN THEN null ELSE v

\* JSON.stringify(doc), parsed again: keys with the value undefined are absent
\* (undefined when read), NaN is null
JSONstringify(doc) ==
    LET task(t) == [t EXCEPT !.estimateMinutes = JSONNumber(@),
                             !.pointsPossible = JSONNumber(@),
                             !.pointsEarned = JSONNumber(@)]
        grade(g) == [g EXCEPT !.scoreEarned = JSONNumber(@),
                              !.scoreTotal = JSONNumber(@),
                              !.weight = JSONNumber(@)]
        course(c) == [c EXCEPT !.credits = JSONNumber(@)]
    IN  Body([doc EXCEPT !.courses = Map(course, @),
                         !.tasks = Map(task, @),
                         !.grades = Map(grade, @)])

\* api/state.go, PUT: json.Unmarshal into AppState succeeds.  The literal null
\* leaves the struct zero; a body that is no object, a version that is no
\* number, a courses / tasks / grades value that is no array and a settings
\* value that is no object are errors (400, nothing stored)
PutAccepts(b) ==
    /\ b.kind \in {"object", "null"}
    /\ b.version # NotNumber
    /\ b.courses.kind # "other" /\ b.tasks.kind # "other" /\ b.grades.kind # "other"
    /\ b.settings.kind # "other"

\* api/state.go, PUT of an accepted body b: what the server stores
PutStored(b) ==
    LET st == b.settings
        array(a) == [kind |-> "array", items |-> a.items]
    IN  [kind |-> "object",
         version |-> IF b.version \in {undefined, 0} THEN 1 ELSE b.version,
         courses |-> array(b.courses),
         tasks |-> array(b.tasks),
         grades |-> array(b.grades),
         settings |->
             [kind |-> "object",
              semesterName |-> IF st.semesterName = missing
                               THEN "Semester" ELSE st.semesterName,
              weekStartsOn |-> IF st.weekStartsOn \in {0, 1}
                               THEN st.weekStartsOn ELSE 1,
              theme |-> IF st.theme = missing THEN "light" ELSE st.theme,
              defaultView |-> IF st.defaultView = missing
                              THEN "dashboard" ELSE st.defaultView]]

\* api/state.go, PUT of the body JSON.stringify(doc): what the server stores
PutNormalized(doc) == PutStored(JSONstringify(doc))

\* api/state.go, GET: the body of the answer
GetBody == IF remote = <<>> THEN JSONstringify(defaultState) ELSE remote[1]

\* mutant of Merged: the version of the body is taken whatever it is
Merged_AnyVersion(data) ==
    LET st == data.settings
        d == DEFAULT_STATE.settings
    IN  [version |-> IF data.version # undefined THEN data.version ELSE DEFAULT_STATE.version,
         courses |-> IF data.courses.kind = "array" THEN data.courses.items ELSE <<>>,
         tasks |-> IF data.tasks.kind = "array" THEN data.tasks.items ELSE <<>>,
         grades |-> IF data.grades.kind = "array" THEN data.grades.items ELSE <<>>,
         settings |->
             [semesterName |-> IF st.semesterName # missing THEN st.semesterName
                               ELSE d.semesterName,
              weekStartsOn |-> IF st.weekStartsOn # undefined THEN st.weekStartsOn
                               ELSE d.weekStartsOn,
              theme |-> IF st.theme # missing THEN st.theme ELSE d.theme,
              defaultView |-> IF st.defaultView # missing THEN st.defaultView
                              ELSE d.defaultView]]

\* mutant of Merged: the version is raised on every merge
Merged_Migrates(data) ==
    LET st == data.settings
        d == DEFAULT_STATE.settings
    IN  [version |-> IF TypeofNumber(data.version) THEN data.version + 1
                     ELSE DEFAULT_STATE.version,
         courses |-> IF data.courses.kind = "array" THEN data.courses.items ELSE <<>>,
         tasks |-> IF data.tasks.kind = "array" THEN data.tasks.items ELSE <<>>,
         grades |-> IF data.grades.kind = "array" THEN data.grades.items ELSE <<>>,
         settings |->
             [semesterName |-> IF st.semesterName # missing THEN st.semesterName
                               ELSE d.semesterName,
              weekStartsOn |-> IF st.weekStartsOn # undefined THEN st.weekStartsOn
                               ELSE d.weekStartsOn,
              theme |-> IF st.theme # missing THEN st.theme ELSE d.theme,
              defaultView |-> IF st.defaultView # missing THEN st.defaultView
                              ELSE d.defaultView]]

\* load effect: `merged` = {...DEFAULT_STATE, ...data, version: a number or
\* the default, settings: {...DEFAULT_STATE.settings, ...(data.settings ?? {})},
\* courses / tasks / grades: the array of the body or []}.  A key that is
\* present in data.settings overrides the default whatever its value.
Merged(data) ==
    LET st == data.settings
        d == DEFAULT_STATE.settings
    IN  [version |-> IF TypeofNumber(data.version) THEN data.version
                     ELSE DEFAULT_STATE.version,
         courses |-> IF data.courses.kind = "array" THEN data.courses.items ELSE <<>>,
         tasks |-> IF data.tasks.kind = "array" THEN data.tasks.items ELSE <<>>,
         grades |-> IF data.grades.kind = "array" THEN data.grades.items ELSE <<>>,
         settings |->
             [semesterName |-> IF st.semesterName # missing THEN st.semesterName
                               ELSE d.semesterName,
              weekStartsOn |-> IF st.weekStartsOn # undefined THEN st.weekStartsOn
                               ELSE d.weekStartsOn,
              theme |-> IF st.theme # missing THEN st.theme ELSE d.theme,
              defaultView |-> IF st.defaultView # missing THEN st.defaultView
                              ELSE d.defaultView]]

\* what the offline cache and the remote store can hold when the app starts
CachedAtStart == {<<>>, <<[DEFAULT_STATE EXCEPT !.settings.theme = "dark"]>>}
StoredAtStart ==
    {<<>>, <<PutNormalized([DEFAULT_STATE EXCEPT !.settings.semesterName = "Fall"])>>}

\* the state after the first render and its effects: the Document is the
\* cached one or DEFAULT_STATE, the GET request is on its way, the save effect
\* has returned at `if (loading) return`
SyncInit ==
    /\ cache \in CachedAtStart
    /\ remote \in StoredAtStart
    /\ state = IF cache = <<>> THEN DEFAULT_STATE ELSE cache[1]
    /\ nextId = 1
    /\ taskModalOpen = FALSE
    /\ editingTaskId = null
    /\ taskCourse = none
    /\ gradeModalOpen = FALSE
    /\ gradeCourse = none
    /\ completeOpen = FALSE
    /\ completeTaskId = null
    /\ completeEarned = 0
    /\ loading = TRUE
    /\ sync = "idle"
    /\ effectPending = FALSE
    /\ debounced = 0
    /\ timerSeq = 0
    /\ saveTimers = {}
    /\ idleTimers = <<>>
    /\ puts = {}
    /\ quietMs = QuietCap
    /\ failure = "none"
    /\ toast = "none"
    /\ downloaded = <<>>
    /\ alerted = FALSE
    /\ ViewInit
    /\ apiKey \in {"", "k"}

\* the X-API-Key header of the requests of the App: fetch("/api/state") and
\* the PUT set none, so r.Header.Get gives the empty text
XAPIKey == ""

\* api/state.go: a request passes unless PLANNER_API_KEY (trimmed, here
\* apiKey) is set and the header differs from it; otherwise the answer is
\* 401 before the store is reached
Authorized(header) == apiKey = "" \/ header = apiKey

\* load effect, the fetch answered ok with a body that is not null (reading
\* data.version of null throws, which ends in the catch of loadFails):
\* setState(merged); saveOfflineCache(merged);
\* clearOfflineCache(); setSync("idle"); setLoading(false)
loadSucceeds ==
    /\ loading /\ ~effectPending
    /\ Authorized(XAPIKey)
    /\ GetBody.kind # "null"
    /\ state' = Merged(GetBody)
    /\ cache' = <<>>
    /\ sync' = "idle"
    /\ loading' = FALSE
    /\ effectPending' = TRUE
    /\ UNCHANGED <<nextId, taskForm, gradeForm, completeForm, toast, fileVars, viewVars, apiKey>>
    /\ UNCHANGED <<debounced, timerSeq, saveTimers, idleTimers, puts, remote, quietMs, failure>>

\* mutant of loadFails: the Document is reset to DEFAULT_STATE
loadFails_Reset ==
    /\ loading /\ ~effectPending
    /\ state' = DEFAULT_STATE
    /\ sync' = "offline"
    /\ loading' = FALSE
    /\ effectPending' = TRUE
    /\ toast' = "error"
    /\ UNCHANGED <<nextId, taskForm, gradeForm, completeForm, fileVars, viewVars, apiKey>>
    /\ UNCHANGED <<debounced, timerSeq, saveTimers, idleTimers, puts, cache, remote, quietMs, failure>>

\* load effect, the fetch threw or answered not ok: setSync("offline");
\* setLoading(false)
loadFails ==
    /\ loading /\ ~effectPending
    /\ sync' = "offline"
    /\ loading' = FALSE
    /\ effectPending' = TRUE
    /\ toast' = "error"
    /\ UNCHANGED <<docVars, fileVars, viewVars, apiKey>>
    /\ UNCHANGED <<debounced, timerSeq, saveTimers, idleTimers, puts, cache, remote, quietMs, failure>>

\* mutant of clearTimeout: the timer stays
clearTimeout_Not(timers, id) == timers

\* window.clearTimeout(id)
clearTimeout(timers, id) == {t \in timers : t.id # id}

\* mutant of saveEffect: the offline cache is not written
saveEffect_NoCache ==
    /\ effectPending
    /\ effectPending' = FALSE
    /\ IF loading
       THEN UNCHANGED <<sync, saveTimers, debounced, timerSeq, quietMs, failure>>
       ELSE /\ sync' = "saving"
            /\ timerSeq' = timerSeq + 1
            /\ saveTimers' = clearTimeout(saveTimers, debounced)
                                \cup {[id |-> timerSeq + 1, left |-> DebounceMs, doc |-> state]}
            /\ debounced' = timerSeq + 1
            /\ quietMs' = 0
            /\ failure' = IF failure = "fresh" THEN "stale" ELSE failure
    /\ UNCHANGED <<docVars, toast, fileVars, viewVars, apiKey>>
    /\ UNCHANGED <<loading, idleTimers, puts, remote, cache>>

\* the save effect (deps [state, loading]) with its cleanup: return while
\* loading; else saveOfflineCache(state), clearTimeout(debounced.current),
\* setSync("saving"), debounced.current = setTimeout(..., 450)
saveEffect ==
    /\ effectPending
    /\ effectPending' = FALSE
    /\ IF loading
       THEN UNCHANGED <<cache, sync, saveTimers, debounced, timerSeq, quietMs, failure>>
       ELSE /\ cache' = <<state>>
            /\ sync' = "saving"
            /\ timerSeq' = timerSeq + 1
            /\ saveTimers' = clearTimeout(saveTimers, debounced)
                                \cup {[id |-> timerSeq + 1, left |-> DebounceMs, doc |-> state]}
            /\ debounced' = timerSeq + 1
            /\ quietMs' = 0
            /\ failure' = IF failure = "fresh" THEN "stale" ELSE failure
    /\ UNCHANGED <<docVars, toast, fileVars, viewVars, apiKey>>
    /\ UNCHANGED <<loading, idleTimers, puts, remote>>

\* a handler that calls setState: the next render has a new `state`
Rendered ==
    /\ ~effectPending
    /\ timerSeq + (IF loading THEN 1 ELSE 0) < MaxTimers
    /\ effectPending' = TRUE
    /\ UNCHANGED <<loading, sync, debounced, timerSeq, saveTimers, idleTimers, puts, cache,
                   remote, quietMs, failure>>
    /\ UNCHANGED <<fileVars, viewVars, apiKey>>

\* a handler that leaves `state` alone
Unrendered ==
    /\ ~effectPending
    /\ UNCHANGED <<syncVars, fileVars, viewVars, apiKey>>

\* TickMs pass; no timer is due
tick ==
    /\ ~effectPending
    /\ \A t \in saveTimers : t.left > 0
    /\ \A i \in 1..Len(idleTimers) : idleTimers[i] > 0
    /\ saveTimers # {} \/ idleTimers # <<>> \/ quietMs < QuietCap
    /\ saveTimers' = {[t EXCEPT !.left = @ - TickMs] : t \in saveTimers}
    /\ idleTimers' = [i \in 1..Len(idleTimers) |-> idleTimers[i] - TickMs]
    /\ quietMs' = Min2(quietMs + TickMs, QuietCap)
    /\ UNCHANGED <<docVars, toast, fileVars, viewVars, apiKey>>
    /\ UNCHANGED <<loading, sync, effectPending, debounced, timerSeq, puts, cache, remote, failure>>

\* the debounce timer t fires: fetch("/api/state", {method: "PUT", body: the
\* `state` of the render that made the timer})
fireSaveTimer(t) ==
    /\ ~effectPending
    /\ t \in saveTimers /\ t.left = 0
    /\ saveTimers' = saveTimers \ {t}
    /\ puts' = puts \cup {[id |-> t.id, doc |-> t.doc, phase |-> "sent"]}
    /\ UNCHANGED <<docVars, toast, fileVars, viewVars, apiKey>>
    /\ UNCHANGED <<loading, sync, effectPending, debounced, timerSeq, idleTimers, cache, remote,
                   quietMs, failure>>

\* mutant of serverPut: the key is not asked for
serverPut_NoAuth(r) ==
    /\ r \in puts /\ r.phase = "sent"
    /\ remote' = <<PutNormalized(r.doc)>>
    /\ puts' = (puts \ {r}) \cup {[r EXCEPT !.phase = "stored"]}
    /\ UNCHANGED <<docVars, toast, fileVars, viewVars, apiKey>>
    /\ UNCHANGED <<loading, sync, effectPending, debounced, timerSeq, saveTimers, idleTimers,
                   cache, quietMs, failure>>

\* api/state.go, PUT: the server stores the body of request r
serverPut(r) ==
    /\ r \in puts /\ r.phase = "sent"
    /\ Authorized(XAPIKey)
    /\ remote' = <<PutNormalized(r.doc)>>
    /\ puts' = (puts \ {r}) \cup {[r EXCEPT !.phase = "stored"]}
    /\ UNCHANGED <<docVars, toast, fileVars, viewVars, apiKey>>
    /\ UNCHANGED <<loading, sync, effectPending, debounced, timerSeq, saveTimers, idleTimers,
                   cache, quietMs, failure>>

\* the ok answer to request r arrives: setSync("saved"), setTimeout(() =>
\* setSync("idle"), 900)
putSucceeds(r) ==
    /\ ~effectPending
    /\ r \in puts /\ r.phase = "stored"
    /\ puts' = puts \ {r}
    /\ sync' = "saved"
    /\ idleTimers' = Append(idleTimers, IdleMs)
    /\ toast' = "success"
    /\ UNCHANGED <<docVars, fileVars, viewVars, apiKey>>
    /\ UNCHANGED <<loading, effectPending, debounced, timerSeq, saveTimers, cache, remote,
                   quietMs, failure>>

\* mutant of putFails: the request is sent again
putFails_Retry(r) ==
    /\ ~effectPending
    /\ r \in puts
    /\ puts' = (puts \ {r}) \cup {[r EXCEPT !.phase = "sent"]}
    /\ sync' = "error"
    /\ failure' = "fresh"
    /\ toast' = "error"
    /\ UNCHANGED <<docVars, fileVars, viewVars, apiKey>>
    /\ UNCHANGED <<loading, effectPending, debounced, timerSeq, saveTimers, idleTimers, cache,
                   remote, quietMs>>

\* request r fails (the fetch throws, before or after the server stored the
\* body, or the answer is not ok): setSync("error")
putFails(r) ==
    /\ ~effectPending
    /\ r \in puts
    /\ puts' = puts \ {r}
    /\ sync' = "error"
    /\ failure' = "fresh"
    /\ toast' = "error"
    /\ UNCHANGED <<docVars, fileVars, viewVars, apiKey>>
    /\ UNCHANGED <<loading, effectPending, debounced, timerSeq, saveTimers, idleTimers, cache,
                   remote, quietMs>>

\* the oldest revert timer fires: setSync("idle")
fireIdleTimer ==
    /\ ~effectPending
    /\ idleTimers # <<>> /\ Head(idleTimers) = 0
    /\ idleTimers' = Tail(idleTimers)
    /\ sync' = "idle"
    /\ UNCHANGED <<docVars, toast, fileVars, viewVars, apiKey>>
    /\ UNCHANGED <<loading, effectPending, debounced, timerSeq, saveTimers, puts, cache, remote,
                   quietMs, failure>>

\* the task form as it is filled in SyncSpec
SyncTaskForms == {f \in TaskForms : f.title = "HW1" /\ f.points = ""}

\* the tab panels (task list, courses, grades) are rendered once loading is
\* false; the "New Task" button and its form are there from the start
SyncNext ==
    \/ loadSucceeds
    \/ loadFails
    \/ saveEffect
    \/ openNewTask /\ Unrendered
    \/ (\E f \in SyncTaskForms : saveTaskNew(f)) /\ Rendered
    \/ (\E id \in Ids : ~loading /\ deleteTask(id)) /\ Rendered
    \/ tick
    \/ \E t \in saveTimers : fireSaveTimer(t)
    \/ \E r \in puts : serverPut(r)
    \/ \E r \in puts : putSucceeds(r)
    \/ \E r \in puts : putFails(r)
    \/ fireIdleTimer

SyncSpec == SyncInit /\ [][SyncNext]_vars

----------------------------------------------------------------------------
(* The merge of the load effect over every body the store can hold *)

\* a task of an earlier session
StoredTask ==
    [id |-> 1, title |-> "HW1", courseId |-> undefined, dueISO |-> undefined,
     priority |-> "medium", notes |-> "", done |-> FALSE, createdISO |-> 1,
     tags |-> <<>>, estimateMinutes |-> undefined, pointsPossible |-> undefined,
     pointsEarned |-> undefined, completedISO |-> undefined]

\* the settings of a body: absent, no object, or an object with any of its
\* keys absent and weekStartsOn any JSON value
RawSettings ==
    {NoSettings("absent"), NoSettings("other")}
        \cup [kind : {"object"},
              semesterName : {missing, "Fall"},
              weekStartsOn : {undefined, 0, 1, 2, 7, NotNumber},
              theme : {missing, "dark"},
              defaultView : {missing, "tasks"}]

\* the bodies GET /api/state can answer with: the store is written by this
\* server, by an earlier version of it, or by hand
RawBodies ==
    {NoBody("null"), NoBody("other"), NoBody("array")}
        \cup [kind : {"object"},
              version : {undefined, NotNumber, 1, 2},
              courses : {AbsentArray, [kind |-> "array", items |-> <<>>]},
              tasks : {AbsentArray, OtherArray, [kind |-> "array", items |-> <<StoredTask>>]},
              grades : {OtherArray, [kind |-> "array", items |-> <<>>]},
              settings : RawSettings]

\* the app starts without a cache; the store holds any body
NormInit ==
    /\ cache = <<>>
    /\ remote \in {<<b>> : b \in RawBodies}
    /\ state = DEFAULT_STATE
    /\ nextId = 1
    /\ taskModalOpen = FALSE
    /\ editingTaskId = null
    /\ taskCourse = none
    /\ gradeModalOpen = FALSE
    /\ gradeCourse = none
    /\ completeOpen = FALSE
    /\ completeTaskId = null
    /\ completeEarned = 0
    /\ loading = TRUE
    /\ sync = "idle"
    /\ effectPending = FALSE
    /\ debounced = 0
    /\ timerSeq = 0
    /\ saveTimers = {}
    /\ idleTimers = <<>>
    /\ puts = {}
    /\ quietMs = QuietCap
    /\ failure = "none"
    /\ toast = "none"
    /\ downloaded = <<>>
    /\ alerted = FALSE
    /\ ViewInit
    /\ apiKey = ""

\* the load and the save that follows it, the user doing nothing
NormNext ==
    \/ loadSucceeds
    \/ loadFails
    \/ saveEffect
    \/ tick
    \/ \E t \in saveTimers : fireSaveTimer(t)
    \/ \E r \in puts : serverPut(r)
    \/ \E r \in puts : putSucceeds(r)
    \/ \E r \in puts : putFails(r)
    \/ fireIdleTimer

NormSpec == NormInit /\ [][NormNext]_vars

----------------------------------------------------------------------------
(* File interchange: the Export JSON and Import JSON buttons, which only the
   earlier App of the repository has.  Its Document is kept as it is held in
   memory, in the form of a parsed body: the merge of that App copies every
   key of the body whatever its value. *)

LEGACY_DEFAULT_STATE ==
    [kind |-> "object",
     version |-> 1,
     courses |-> [kind |-> "array", items |-> <<>>],
     tasks |-> [kind |-> "array", items |-> <<>>],
     grades |-> [kind |-> "array", items |-> <<>>],
     settings |-> [kind |-> "object", semesterName |-> "Semester", weekStartsOn |-> 1,
                   theme |-> missing, defaultView |-> missing]]

\* {...DEFAULT_STATE, ...data, settings: {...DEFAULT_STATE.settings,
\* ...(data.settings ?? {})}}: the merge of the load effect and of importJSON
LegacyMerged(data) ==
    LET st == data.settings
        d == LEGACY_DEFAULT_STATE
    IN  [kind |-> "object",
         version |-> IF data.version # undefined THEN data.version ELSE d.version,
         courses |-> IF data.courses.kind # "absent" THEN data.courses ELSE d.courses,
         tasks |-> IF data.tasks.kind # "absent" THEN data.tasks ELSE d.tasks,
         grades |-> IF data.grades.kind # "absent" THEN data.grades ELSE d.grades,
         settings |->
             [kind |-> "object",
              semesterName |-> IF st.semesterName # missing THEN st.semesterName
                               ELSE d.settings.semesterName,
              weekStartsOn |-> IF st.weekStartsOn # undefined THEN st.weekStartsOn
                               ELSE d.settings.weekStartsOn,
              theme |-> st.theme,
              defaultView |-> st.defaultView]]

\* mutant of LegacyJSON: the settings are left out of the file
LegacyJSON_NoSettings(doc) ==
    [doc EXCEPT !.version = JSONNumber(@), !.settings = NoSettings("absent")]

\* exportJSON: JSON.stringify(state, null, 2), as JSON.parse reads it back
LegacyJSON(doc) ==
    [doc EXCEPT !.version = JSONNumber(@), !.settings.weekStartsOn = JSONNumber(@)]

\* a file the user can pick: its text parses or not, and to what
Unparseable == [parses |-> FALSE, value |-> NoBody("null")]
Parsed(v) == [parses |-> TRUE, value |-> v]

ImportFiles ==
    {Unparseable,
     Parsed(NoBody("null")),
     Parsed(NoBody("other")),
     Parsed(NoBody("array")),
     Parsed([NoBody("object") EXCEPT
                !.tasks = [kind |-> "array", items |-> <<StoredTask>>],
                !.settings = [NoSettings("object") EXCEPT !.weekStartsOn = 0]]),
     Parsed([LEGACY_DEFAULT_STATE EXCEPT !.version = 2, !.settings.semesterName = "Fall"])}

\* the files there are to import: the ones above and the one exported last
Files == ImportFiles \cup {Parsed(downloaded[i]) : i \in 1..Len(downloaded)}

\* what the store holds when the earlier App starts
LegacyStored == {<<>>, <<NoBody("null")>>, <<LegacyJSON(LEGACY_DEFAULT_STATE)>>}

LegacyInit ==
    /\ state = LEGACY_DEFAULT_STATE
    /\ remote \in LegacyStored
    /\ cache = <<>>
    /\ nextId = 1
    /\ taskModalOpen = FALSE
    /\ editingTaskId = null
    /\ taskCourse = none
    /\ gradeModalOpen = FALSE
    /\ gradeCourse = none
    /\ completeOpen = FALSE
    /\ completeTaskId = null
    /\ completeEarned = 0
    /\ loading = TRUE
    /\ sync = "idle"
    /\ effectPending = FALSE
    /\ debounced = 0
    /\ timerSeq = 0
    /\ saveTimers = {}
    /\ idleTimers = <<>>
    /\ puts = {}
    /\ quietMs = QuietCap
    /\ failure = "none"
    /\ toast = "none"
    /\ downloaded = <<>>
    /\ alerted = FALSE
    /\ ViewInit
    /\ apiKey = ""

\* load effect of the earlier App, the fetch answered ok with a body that is
\* not null: setState(the merge); setLoading(false)
legacyLoadSucceeds ==
    /\ loading /\ ~effectPending
    /\ Authorized(XAPIKey)
    /\ GetBody.kind # "null"
    /\ state' = LegacyMerged(GetBody)
    /\ loading' = FALSE
    /\ effectPending' = TRUE
    /\ UNCHANGED <<nextId, taskForm, gradeForm, completeForm, toast, fileVars, viewVars, apiKey>>
    /\ UNCHANGED <<sync, debounced, timerSeq, saveTimers, idleTimers, puts, cache, remote,
                   quietMs, failure>>

\* load effect of the earlier App, the catch: setState(DEFAULT_STATE);
\* setLoading(false)
legacyLoadFails ==
    /\ loading /\ ~effectPending
    /\ state' = LEGACY_DEFAULT_STATE
    /\ loading' = FALSE
    /\ effectPending' = TRUE
    /\ UNCHANGED <<nextId, taskForm, gradeForm, completeForm, toast, fileVars, viewVars, apiKey>>
    /\ UNCHANGED <<sync, debounced, timerSeq, saveTimers, idleTimers, puts, cache, remote,
                   quietMs, failure>>

\* the save effect of the earlier App: return while loading; else
\* clearTimeout(debounced.current), setSaveStatus("saving"), debounced.current
\* = setTimeout(..., 450)
legacySaveEffect ==
    /\ effectPending /\ ~alerted
    /\ effectPending' = FALSE
    /\ IF loading
       THEN UNCHANGED <<sync, saveTimers, debounced, timerSeq, quietMs, failure>>
       ELSE /\ sync' = "saving"
            /\ timerSeq' = timerSeq + 1
            /\ saveTimers' = clearTimeout(saveTimers, debounced)
                                \cup {[id |-> timerSeq + 1, left |-> DebounceMs, doc |-> state]}
            /\ debounced' = timerSeq + 1
            /\ quietMs' = 0
            /\ failure' = IF failure = "fresh" THEN "stale" ELSE failure
    /\ UNCHANGED <<docVars, toast, fileVars, viewVars, apiKey>>
    /\ UNCHANGED <<loading, idleTimers, puts, cache, remote>>

\* the "Semester name" input of the settings tab
setSemesterName(v) ==
    /\ ~loading /\ ~alerted
    /\ state' = [state EXCEPT !.settings.semesterName = v]
    /\ UNCHANGED <<nextId, taskForm, gradeForm, completeForm, toast>>
    /\ Rendered

\* the "Week starts on" select of the settings tab: Number(v) of "1" or "0"
setWeekStartsOn(v) ==
    /\ ~loading /\ ~alerted
    /\ state' = [state EXCEPT !.settings.weekStartsOn = v]
    /\ UNCHANGED <<nextId, taskForm, gradeForm, completeForm, toast>>
    /\ Rendered

\* exportJSON: downloadText(name, JSON.stringify(state, null, 2))
exportJSON ==
    /\ ~loading /\ ~alerted /\ ~effectPending
    /\ downloaded' = <<LegacyJSON(state)>>
    /\ UNCHANGED <<docVars, syncVars, toast, alerted, viewVars, apiKey>>

\* importJSON, reader.onload: JSON.parse throws, or the value is falsy or
\* typeof value is not "object": alert("Import failed: invalid JSON.")
importRejected(file) ==
    /\ ~loading /\ ~alerted /\ ~effectPending
    /\ ~file.parses \/ file.value.kind \in {"null", "other"}
    /\ alerted' = TRUE
    /\ UNCHANGED <<docVars, syncVars, toast, downloaded, viewVars, apiKey>>

\* importJSON, reader.onload: the value is an object or an array (typeof
\* "object"): setState(the merge)
importAccepted(file) ==
    /\ ~loading /\ ~alerted
    /\ file.parses /\ file.value.kind \in {"object", "array"}
    /\ state' = LegacyMerged(file.value)
    /\ UNCHANGED <<nextId, taskForm, gradeForm, completeForm, toast>>
    /\ Rendered

importJSON(file) == importRejected(file) \/ importAccepted(file)

\* the user closes the alert
dismissAlert ==
    /\ alerted
    /\ alerted' = FALSE
    /\ UNCHANGED <<docVars, syncVars, toast, downloaded, viewVars, apiKey>>

\* nothing runs while the alert is on the screen
LegacyNext ==
    \/ legacyLoadSucceeds
    \/ legacyLoadFails
    \/ legacySaveEffect
    \/ \E v \in {"Semester", "Fall"} : setSemesterName(v)
    \/ \E v \in {0, 1} : setWeekStartsOn(v)
    \/ exportJSON
    \/ \E file \in Files : importJSON(file)
    \/ dismissAlert
    \/ ~alerted /\ tick
    \/ \E t \in saveTimers : ~alerted /\ fireSaveTimer(t)

LegacySpec == LegacyInit /\ [][LegacyNext]_vars

----------------------------------------------------------------------------
(* Views: the due buckets of the dashboard, the filtered task list and the
   grade statistics.  A timestamp is a number of hours; the local calendar
   is given by `zone`: every day has 24 hours but day zone.day, which has
   24 + zone.shift (the night the clocks are set back or forward). *)

\* the timestamp at which local day k starts
DayStart(k) == 24 * k + (IF k > zone.day THEN zone.shift ELSE 0)

\* the local day a timestamp falls on
DayOf(t) == CHOOSE k \in -2..12 : DayStart(k) <= t /\ t < DayStart(k + 1)

\* lib/date.ts startOfDay: setHours(0, 0, 0, 0), local midnight of the day
startOfDay(t) == DayStart(DayOf(t))

\* lib/date.ts addDays: new Date(d.getTime() + days * 86400000)
addDays(d, days) == d + days * 24

\* const nowDay = startOfDay(new Date())
nowDay == startOfDay(clock)

overdue ==
    LET p(t) == ~t.done /\ t.dueISO # undefined /\ startOfDay(t.dueISO) < nowDay
    IN  Filter(p, state.tasks)

dueToday ==
    LET p(t) == ~t.done /\ t.dueISO # undefined /\ startOfDay(t.dueISO) = nowDay
    IN  Filter(p, state.tasks)

dueSoon ==
    LET in7 == startOfDay(addDays(nowDay, 7))
        p(t) == /\ ~t.done /\ t.dueISO # undefined
                /\ startOfDay(t.dueISO) > nowDay
                /\ startOfDay(t.dueISO) <= in7
    IN  Filter(p, state.tasks)

\* the earlier App: dueSoon
legacyDueSoon ==
    LET today == startOfDay(clock)
        in3 == startOfDay(today + 3 * 24)
        p(t) == /\ ~t.done /\ t.dueISO # undefined
                /\ startOfDay(t.dueISO) >= today
                /\ startOfDay(t.dueISO) <= in3
    IN  Filter(p, state.tasks)

\* local time h o'clock of day k, as the due field gives it
DueAt(k, h) == 24 * k + h

\* the tasks of the Documents the views are shown
ViewTasks ==
    {[StoredTask EXCEPT !.id = 1, !.dueISO = DueAt(3, 9), !.priority = "high",
                        !.courseId = 1, !.createdISO = -40],
     [StoredTask EXCEPT !.id = 2, !.title = "Essay", !.dueISO = DueAt(7, 9),
                        !.priority = "low", !.notes = "ch. 3", !.createdISO = -30,
                        !.tags = <<"lab", "exam">>],
     [StoredTask EXCEPT !.id = 3, !.title = "Essay", !.dueISO = DueAt(0, 9),
                        !.done = TRUE, !.completedISO = -10, !.courseId = 1,
                        !.createdISO = -20],
     [StoredTask EXCEPT !.id = 4, !.createdISO = -10],
     [StoredTask EXCEPT !.id = 5, !.dueISO = DueAt(8, 2), !.priority = "high",
                        !.createdISO = -50],
     [StoredTask EXCEPT !.id = 6, !.dueISO = DueAt(0, 23), !.priority = "low",
                        !.createdISO = -25],
     [StoredTask EXCEPT !.id = 7, !.title = "Essay", !.courseId = 2,
                        !.createdISO = -5]}

\* Documents with three of those tasks in any order and one course
ViewDocuments ==
    {[DEFAULT_STATE EXCEPT
         !.tasks = l,
         !.courses = <<[id |-> 1, name |-> "Calc II", color |-> "#3b82f6",
                        credits |-> 300]>>] :
        l \in {x \in ViewTasks \X ViewTasks \X ViewTasks :
                     x[1] # x[2] /\ x[1] # x[3] /\ x[2] # x[3]}}

\* String.prototype.toLowerCase over the texts of the views
toLowerCase(v) ==
    CASE v = "HW" -> "hw"
      [] v = "HW1" -> "hw1"
      [] v = "Essay" -> "essay"
      [] v = "Calc II" -> "calc ii"
      [] v = "No course" -> "no course"
      [] v = "Unknown course" -> "unknown course"
      [] OTHER -> v

\* courseName(courses, id)
courseName(courses, id) ==
    IF id = undefined THEN "No course"
    ELSE IF Exists(LAMBDA c : c.id = id, courses)
         THEN Find(LAMBDA c : c.id = id, courses).name
         ELSE "Unknown course"

\* String.prototype.includes, q against the fields joined by single spaces
\* (the queries drawn hold no space)
includes(fields, q) ==
    \/ q = ""
    \/ \E i \in 1..Len(fields) :
          \/ fields[i] = q
          \/ <<q, fields[i]>> \in {<<"hw", "hw1">>}

\* the haystack of a task: title, notes, tags and course name, lower case
hay(t) ==
    Map(toLowerCase, <<t.title, t.notes>> \o t.tags \o <<courseName(state.courses, t.courseId)>>)

\* the filter callback of filteredTasks
TaskShown_AnyPriority(t) ==
    LET q == toLowerCase(trim(search))
    IN  /\ ~(filterStatus = "open" /\ t.done)
        /\ ~(filterStatus = "done" /\ ~t.done)
        /\ ~(filterCourse = none /\ t.courseId # undefined)
        /\ ~(filterCourse # all /\ filterCourse # none /\ t.courseId # filterCourse)
        /\ (q = "" \/ includes(hay(t), q))

TaskShown(t) ==
    LET q == toLowerCase(trim(search))
    IN  /\ ~(filterStatus = "open" /\ t.done)
        /\ ~(filterStatus = "done" /\ ~t.done)
        /\ ~(filterCourse = none /\ t.courseId # undefined)
        /\ ~(filterCourse # all /\ filterCourse # none /\ t.courseId # filterCourse)
        /\ ~(filterPriority # "all" /\ t.priority # filterPriority)
        /\ (q = "" \/ includes(hay(t), q))

\* Number.POSITIVE_INFINITY among the timestamps of the model
Infinity == 1000000

\* the sort callback of filteredTasks: a - b is negative, zero or positive as
\* these keys compare (Infinity - Infinity is NaN, which sort takes as zero)
SortKey(t) ==
    CASE sortMode = "created" -> -t.createdISO
      [] sortMode = "priority" ->
            -(IF t.priority = "high" THEN 3 ELSE IF t.priority = "medium" THEN 2 ELSE 1)
      [] OTHER -> IF t.dueISO # undefined THEN t.dueISO ELSE Infinity

\* Array.prototype.sort, which is stable: ascending by key, equal keys in
\* their order in s
sort(s) ==
    LET before(j, i) ==
            \/ SortKey(s[j]) < SortKey(s[i])
            \/ SortKey(s[j]) = SortKey(s[i]) /\ j < i
        pos(i) == 1 + Cardinality({j \in 1..Len(s) : before(j, i)})
    IN  [k \in 1..Len(s) |-> s[CHOOSE i \in 1..Len(s) : pos(i) = k]]

filteredTasks == sort(Filter(TaskShown, state.tasks))

ViewSpecInit ==
    /\ state \in ViewDocuments
    /\ nextId = 1
    /\ taskModalOpen = FALSE
    /\ editingTaskId = null
    /\ taskCourse = none
    /\ gradeModalOpen = FALSE
    /\ gradeCourse = none
    /\ completeOpen = FALSE
    /\ completeTaskId = null
    /\ completeEarned = 0
    /\ loading = FALSE
    /\ sync = "idle"
    /\ effectPending = FALSE
    /\ debounced = 0
    /\ timerSeq = 0
    /\ saveTimers = {}
    /\ idleTimers = <<>>
    /\ puts = {}
    /\ cache = <<>>
    /\ remote = <<>>
    /\ quietMs = QuietCap
    /\ failure = "none"
    /\ toast = "none"
    /\ downloaded = <<>>
    /\ alerted = FALSE
    /\ search = ""
    /\ filterCourse = all
    /\ filterStatus = "all"
    /\ filterPriority = "all"
    /\ sortMode = "due"
    /\ clock = 12
    /\ zone \in {[day |-> 0, shift |-> 0], [day |-> 3, shift |-> 1],
                 [day |-> 3, shift |-> -1]}
    /\ apiKey = ""

setSearch(v) ==
    /\ search' = v
    /\ UNCHANGED <<filterCourse, filterStatus, filterPriority, sortMode, clock, zone>>

setFilterCourse(v) ==
    /\ v \in {all, none} \cup CourseIds(state)
    /\ filterCourse' = v
    /\ UNCHANGED <<search, filterStatus, filterPriority, sortMode, clock, zone>>

setFilterStatus(v) ==
    /\ filterStatus' = v
    /\ UNCHANGED <<search, filterCourse, filterPriority, sortMode, clock, zone>>

setFilterPriority(v) ==
    /\ filterPriority' = v
    /\ UNCHANGED <<search, filterCourse, filterStatus, sortMode, clock, zone>>

setSortMode(v) ==
    /\ sortMode' = v
    /\ UNCHANGED <<search, filterCourse, filterStatus, filterPriority, clock, zone>>

\* a day passes and the App renders again
nextDay ==
    /\ clock < 24
    /\ clock' = clock + 24
    /\ UNCHANGED <<search, filterCourse, filterStatus, filterPriority, sortMode, zone>>

ViewNext ==
    \/ (\E v \in {"", " HW "} : setSearch(v)) /\ UNCHANGED <<docVars, syncVars, toast, fileVars, apiKey>>
    \/ (\E v \in {all, none} \cup Ids : setFilterCourse(v)) /\ UNCHANGED <<docVars, syncVars, toast, fileVars, apiKey>>
    \/ (\E v \in {"all", "open", "done"} : setFilterStatus(v)) /\ UNCHANGED <<docVars, syncVars, toast, fileVars, apiKey>>
    \/ (\E v \in {"all", "high", "low"} : setFilterPriority(v)) /\ UNCHANGED <<docVars, syncVars, toast, fileVars, apiKey>>
    \/ (\E v \in {"due", "created", "priority"} : setSortMode(v)) /\ UNCHANGED <<docVars, syncVars, toast, fileVars, apiKey>>
    \/ nextDay /\ UNCHANGED <<docVars, syncVars, toast, fileVars, apiKey>>

ViewSpec == ViewSpecInit /\ [][ViewNext]_vars

----------------------------------------------------------------------------
(* Properties of the Document *)

Tasks == Range(state.tasks)
Grades == Range(state.grades)
Derived == {g \in Grades : g.taskId # undefined}
LinkedTo(id) == {g \in Grades : g.taskId = id}
HasPoints(t) == IsNumber(t.pointsPossible) /\ t.pointsPossible > 0

\* C1: every GradeItem that has a taskId refers to a Task of the Document
\* that is done and has a defined pointsPossible > 0.
C1_DerivedHasDoneSource ==
    \A g \in Derived : \E t \in Tasks : t.id = g.taskId /\ t.done /\ HasPoints(t)

\* a derived GradeItem is in the Document next to an open task
C1_Witness ==
    /\ Derived # {}
    /\ \E t \in Tasks : ~t.done

Unmirrored(doc, t) ==
    /\ t.done /\ HasPoints(t) /\ IsNumber(t.pointsEarned)
    /\ \A i \in 1..Len(doc.grades) : doc.grades[i].taskId # t.id

C3_DerivedMirrorsSource ==
    \A g \in Derived : \A t \in Tasks :
        t.id = g.taskId =>
            /\ g.scoreEarned = t.pointsEarned
            /\ g.scoreTotal = t.pointsPossible
            /\ g.name = t.title
            /\ g.courseId = t.courseId
            /\ g.dueISO = t.dueISO

\* a derived GradeItem mirrors a task whose course was deleted (the task form
\* still shows that course)
C3_Witness ==
    /\ taskModalOpen /\ taskCourse \notin ({none} \cup CourseIds(state))
    /\ \E g \in Derived : \E t \in Tasks :
          t.id = g.taskId /\ t.id = editingTaskId /\ g.courseId = undefined

\* C4 as stated: a Task has pointsEarned defined only if it is done and its
\* pointsPossible is defined.
C4_EarnedOnlyIfDoneWithPoints ==
    \A t \in Tasks : IsNumber(t.pointsEarned) => (t.done /\ IsNumber(t.pointsPossible))

\* C5: every Task with pointsEarned and pointsPossible defined has
\* 0 <= pointsEarned <= pointsPossible, and a step that lowers a task's
\* pointsPossible below its current pointsEarned (only updateTask changes
\* pointsPossible) sets pointsEarned to the new pointsPossible.
C5_EarnedWithinPossible ==
    [][/\ \A t \in Range(state'.tasks) :
             (IsNumber(t.pointsEarned) /\ IsNumber(t.pointsPossible))
                 => (0 <= t.pointsEarned /\ t.pointsEarned <= t.pointsPossible)
       /\ \A t \in Tasks : \A u \in Range(state'.tasks) :
             (/\ u.id = t.id
              /\ IsNumber(t.pointsEarned) /\ IsNumber(u.pointsPossible)
              /\ u.pointsPossible < t.pointsEarned)
                 => u.pointsEarned = u.pointsPossible]_vars

\* a done task holds 1.3 of 2 points (an interior score) while the task form
\* is open on it, so that updateTask can lower its points below the score
C5_Witness ==
    \E t \in Tasks : /\ t.done /\ t.pointsPossible = 200 /\ t.pointsEarned = 130
                     /\ taskModalOpen /\ editingTaskId = t.id

\* the entered amount x rounded to one decimal (either neighbour when x is
\* half way) and clamped to [0, P] gives r; a text that is no number counts 0
RoundedAndClamped(x, P, r) ==
    LET v == IF x = NaN THEN 0 ELSE x
    IN  \E k \in ((v - 5) \div 10)..((v + 5) \div 10) :
           /\ 10 * k - v <= 5 /\ v - 10 * k <= 5
           /\ r = IF 10 * k < 0 THEN 0 ELSE IF 10 * k > P THEN P ELSE 10 * k

\* C6: confirming an open Task with pointsPossible = P > 0 with any entered
\* amount e makes it done with pointsEarned = clamp(round1(e), 0, P), and the
\* Document then holds a GradeItem linked to it with scoreEarned =
\* pointsEarned and scoreTotal = P.
C6_ConfirmClampsAndRecords ==
    [][\A t \in Tasks : \A e \in AmountTexts \cup {completeEarned} :
          (/\ completeOpen /\ t.id = completeTaskId
           /\ ~t.done /\ HasPoints(t)
           /\ confirmComplete(e))
             => \E u \in Range(state'.tasks) :
                   /\ u.id = t.id /\ u.done
                   /\ RoundedAndClamped(e, t.pointsPossible, u.pointsEarned)
                   /\ \E i \in 1..Len(state'.grades) :
                         /\ state'.grades[i].taskId = t.id
                         /\ state'.grades[i].scoreEarned = u.pointsEarned
                         /\ state'.grades[i].scoreTotal = t.pointsPossible]_vars

\* the scenario of the spec, scaled: 2 points possible, 2.5 entered, stored
\* 2 of 2; and an entered 1.25 stored as 1.3
C6_Witness ==
    \E t \in Tasks : \E g \in LinkedTo(t.id) :
        /\ t.done /\ t.pointsPossible = 200
        /\ t.pointsEarned \in {130, 200}
        /\ g.scoreEarned = t.pointsEarned /\ g.scoreTotal = 200
        /\ ~completeOpen

\* C7: each Task has completedISO defined if and only if done = true.
C7_CompletedIffDone ==
    \A t \in Tasks : (t.completedISO # undefined) <=> t.done

\* a task completed after a later uid() call than its own, next to an open
\* task
C7_Witness ==
    /\ \E t \in Tasks : t.done /\ t.completedISO > t.createdISO
    /\ \E t \in Tasks : ~t.done /\ t.completedISO = undefined

\* C8 as stated: every courseId on a Task or a GradeItem is the id of a
\* Course of the Document.
C8_CourseIdsExist ==
    /\ \A t \in Tasks : t.courseId # undefined => t.courseId \in CourseIds(state)
    /\ \A g \in Grades : g.courseId # undefined => g.courseId \in CourseIds(state)

\* seq with the elements that satisfy gone(_) dropped, the others in order
Kept(seq, gone(_)) == {i \in 1..Len(seq) : ~gone(seq[i])}
IsWithout(after, seq, gone(_)) ==
    /\ Len(after) = Cardinality(Kept(seq, gone))
    /\ \A i \in Kept(seq, gone) :
          after[Cardinality({j \in Kept(seq, gone) : j <= i})] = seq[i]

\* C9: deleteCourse(c) removes exactly the Course c, sets courseId to
\* undefined on every Task and GradeItem whose courseId = c, and deletes no
\* Task and no GradeItem: their ids, order and other fields are unchanged.
C9_DeleteCourseNullifies ==
    [][\A c \in Ids : deleteCourse(c) =>
          LET isC(x) == x.id = c
          IN  /\ IsWithout(state'.courses, state.courses, isC)
              /\ Len(state'.tasks) = Len(state.tasks)
              /\ Len(state'.grades) = Len(state.grades)
              /\ \A i \in 1..Len(state.tasks) :
                    /\ state'.tasks[i].courseId =
                          IF state.tasks[i].courseId = c THEN undefined
                          ELSE state.tasks[i].courseId
                    /\ [state'.tasks[i] EXCEPT !.courseId = 0]
                          = [state.tasks[i] EXCEPT !.courseId = 0]
              /\ \A i \in 1..Len(state.grades) :
                    /\ state'.grades[i].courseId =
                          IF state.grades[i].courseId = c THEN undefined
                          ELSE state.grades[i].courseId
                    /\ [state'.grades[i] EXCEPT !.courseId = 0]
                          = [state.grades[i] EXCEPT !.courseId = 0]
              /\ state'.settings = state.settings
              /\ state'.version = state.version]_vars

\* the course selected in the open grade form is gone, and a task and a grade
\* item are still there, without course
C9_Witness ==
    /\ gradeModalOpen /\ gradeCourse \notin ({none} \cup CourseIds(state))
    /\ \E t \in Tasks : t.courseId = undefined
    /\ \E g \in Grades : g.courseId = undefined

\* C10: deleteTask(id) removes that Task and every GradeItem with taskId =
\* id, and leaves all other Tasks, all other GradeItems, the Courses and the
\* Settings unchanged, whatever the completion state of the task.
C10_DeleteTaskFrame ==
    [][\A id \in Ids : deleteTask(id) =>
          LET isT(t) == t.id = id
              linked(g) == g.taskId = id
          IN  /\ IsWithout(state'.tasks, state.tasks, isT)
              /\ IsWithout(state'.grades, state.grades, linked)
              /\ state'.courses = state.courses
              /\ state'.settings = state.settings
              /\ state'.version = state.version]_vars

\* the task of the open completion modal (PendingScore) was deleted; a derived
\* item of another task and that task are still there
C10_Witness ==
    /\ completeOpen /\ completeTaskId \notin TaskIds(state)
    /\ \E g \in Derived : \E t \in Tasks : t.id = g.taskId

----------------------------------------------------------------------------
(* Properties of the completion flow *)

\* PendingScore: the completion modal is open on the open task t
PendingScore(t) == completeOpen /\ completeTaskId = t.id /\ ~t.done

\* C11: undo on a done Task returns it to not done with pointsEarned and
\* completedISO cleared (its other fields kept), removes exactly the
\* GradeItems linked to it, and leaves every other GradeItem, every other
\* Task, the Courses and the Settings unchanged.
C11_UndoFrame ==
    [][\A id \in Ids : toggleTaskUndo(id) =>
          LET linked(g) == g.taskId = id
          IN  /\ Len(state'.tasks) = Len(state.tasks)
              /\ \A i \in 1..Len(state.tasks) :
                    IF state.tasks[i].id = id
                    THEN /\ ~state'.tasks[i].done
                         /\ state'.tasks[i].pointsEarned = undefined
                         /\ state'.tasks[i].completedISO = undefined
                         /\ [state'.tasks[i] EXCEPT !.done = TRUE, !.pointsEarned = 0,
                                                    !.completedISO = 0]
                               = [state.tasks[i] EXCEPT !.done = TRUE, !.pointsEarned = 0,
                                                        !.completedISO = 0]
                    ELSE state'.tasks[i] = state.tasks[i]
              /\ IsWithout(state'.grades, state.grades, linked)
              /\ state'.courses = state.courses
              /\ state'.settings = state.settings
              /\ state'.version = state.version]_vars

\* a task with points is open again after its derived GradeItem (the third
\* id) was made, and the manual GradeItem made before it is still there
C11_Witness ==
    /\ nextId = 4
    /\ \E t \in Tasks : /\ ~t.done /\ HasPoints(t) /\ t.pointsEarned = undefined
                        /\ t.completedISO = undefined /\ LinkedTo(t.id) = {}
    /\ \E g \in Grades : g.taskId = undefined /\ g.id = 2
    /\ state.courses = <<>> /\ Len(state.tasks) = 1

\* C12 as stated: complete on an open Task whose pointsPossible is undefined
\* or <= 0 makes it done at once with completedISO = now, pointsEarned left
\* undefined and the GradeItems as they were.
C12_DirectLeavesEarnedUndefined ==
    [][\A id \in Ids : toggleTaskDirect(id) =>
          /\ state'.grades = state.grades
          /\ \A u \in Range(state'.tasks) :
                u.id = id => /\ u.done /\ u.completedISO = now
                             /\ u.pointsEarned = undefined]_vars

\* C13: the completion state of a Task changes only along Open ->
\* PendingScore (complete, pointsPossible > 0, Document unchanged),
\* PendingScore -> Done (confirm), PendingScore -> Open (Document unchanged),
\* Open -> Done (complete, no positive pointsPossible) and Done -> Open
\* (undo); a Task with pointsPossible > 0 becomes done only by a confirm step
\* on it, and only undo, complete and confirm change done.
C13_CompletionStateMachine ==
    [][\A t \in Tasks : \A u \in Range(state'.tasks) :
          u.id = t.id =>
             /\ (~t.done /\ u.done) =>
                   \/ PendingScore(t) /\ ~completeOpen'
                                      /\ \E e \in AmountTexts \cup {completeEarned} :
                                            confirmComplete(e)
                   \/ ~HasPoints(t) /\ toggleTaskDirect(t.id)
             /\ (~t.done /\ u.done /\ HasPoints(t)) => PendingScore(t)
             /\ (t.done /\ ~u.done) => toggleTaskUndo(t.id)
             /\ (PendingScore(t) /\ ~u.done /\ ~(completeOpen' /\ completeTaskId' = t.id)) =>
                   state' = state
             /\ (~t.done /\ ~PendingScore(t) /\ completeOpen' /\ completeTaskId' = t.id) =>
                   HasPoints(t) /\ state' = state]_vars

\* a task with points is done through a confirm step (it has its derived
\* GradeItem) while the completion modal is open on another open task
C13_Witness ==
    /\ \E t \in Tasks : t.done /\ HasPoints(t) /\ LinkedTo(t.id) # {}
    /\ \E t \in Tasks : PendingScore(t) /\ HasPoints(t)

\* the manual GradeItems of a Document, in order
ManualGrades(doc) == LET manual(g) == g.taskId = undefined IN Filter(manual, doc.grades)

\* C14: manual GradeItems are never auto-modified: a step changes the
\* sequence of manual GradeItems (their fields and their relative order) only
\* if it is addGrade, deleteGrade or deleteCourse; addTask, updateTask,
\* complete, confirm, undo and deleteTask leave it unchanged.
C14_ManualGradesUntouched ==
    [][\/ ManualGrades(state') = ManualGrades(state)
       \/ \E id \in Ids : deleteGrade(id) \/ deleteCourse(id)
       \/ addGrade]_vars

\* a derived GradeItem was put in front of a manual one made before it
C14_Witness ==
    /\ Len(state.grades) = 2
    /\ state.grades[1].taskId # undefined
    /\ state.grades[2].taskId = undefined
    /\ state.grades[2].createdISO < state.grades[1].createdISO

\* C15 as stated: updateTask on a done Task leaves a GradeItem linked to it
\* whenever the updated task has pointsPossible > 0 (mirroring the task, in
\* place with its id and createdISO when one existed) and none when its points
\* were cleared or set to 0; updateTask on an open Task changes no GradeItem.
C15_UpdateRederives ==
    [][(taskModalOpen /\ editingTaskId \in TaskIds(state) /\ ~taskModalOpen') =>
          \A f \in TaskForms : saveTaskEdit(f) =>
             LET t == TaskOf(editingTaskId)
                 isT(x) == x.id = t.id
                 u == Find(isT, state'.tasks)
                 linked(g) == g.taskId = t.id
             IN  IF ~t.done THEN state'.grades = state.grades
                 ELSE IF HasPoints(u)
                 THEN /\ Exists(linked, state'.grades)
                      /\ \A i \in 1..Len(state'.grades) :
                            linked(state'.grades[i]) =>
                               /\ state'.grades[i].scoreEarned = u.pointsEarned
                               /\ state'.grades[i].scoreTotal = u.pointsPossible
                               /\ state'.grades[i].name = u.title
                               /\ state'.grades[i].courseId = u.courseId
                               /\ state'.grades[i].dueISO = u.dueISO
                      /\ Exists(linked, state.grades) =>
                            /\ Len(state'.grades) = Len(state.grades)
                            /\ \A i \in 1..Len(state.grades) :
                                  IF linked(state.grades[i])
                                  THEN /\ state'.grades[i].id = state.grades[i].id
                                       /\ state'.grades[i].createdISO = state.grades[i].createdISO
                                       /\ linked(state'.grades[i])
                                  ELSE state'.grades[i] = state.grades[i]
                 ELSE ~Exists(linked, state'.grades)]_vars

----------------------------------------------------------------------------
(* Properties of the persistence (SyncSpec) *)

\* the ids of the requests in flight, of the pending debounce timers
PutIds(ps) == {r.id : r \in ps}
TimerIds(ts) == {t.id : t \in ts}

\* C16: mutations that each come less than the debounce delay after the
\* previous one give one remote write: a PUT is sent only when DebounceMs
\* have passed since the save effect last ran, by the timer made last, with
\* the current Document as its body, and no debounce timer is left pending
\* (the timers of the earlier mutations never fire).
C16_BurstGivesOneWrite ==
    [][\A t \in saveTimers : fireSaveTimer(t) =>
          /\ quietMs = DebounceMs
          /\ t.id = debounced /\ t.id = timerSeq
          /\ t.doc = state
          /\ saveTimers' = {}
          /\ PutIds(puts') = PutIds(puts) \cup {t.id}]_vars

\* the third debounce timer sent the only PUT there has been (nothing is
\* stored, nothing failed), and it carries the Document with both tasks
C16_Witness ==
    /\ \E r \in puts : puts = {r} /\ r.id = 3 /\ r.doc = state
    /\ Len(state.tasks) = 2
    /\ remote = <<>> /\ failure = "none" /\ saveTimers = {}

\* C17 as stated: at every moment at most one PUT request is in flight.
C17_AtMostOnePutInFlight == Cardinality(puts) <= 1

\* the load has finished and nothing is pending: no render waits for its
\* effect, no debounce timer is pending, no request is in flight
Settled == ~loading /\ ~effectPending /\ saveTimers = {} /\ puts = {}

\* C18 as stated: if every remote write succeeded, then once nothing is
\* pending the remote store holds the client's Document.
C18_LastWriteWins ==
    (Settled /\ failure = "none") => remote = <<PutNormalized(state)>>

\* C19 as stated, the transitions into idle: the sync status becomes idle
\* only from saved (after the short delay); it never moves from saving or
\* from error to idle.
C19_IdleOnlyAfterSaved ==
    [][(sync' # sync /\ sync' = "idle") => sync = "saved"]_vars

\* C20 as stated: a failed remote write sets the status to error and leaves
\* the Document and the offline cache as they were, and after it no remote
\* write is sent until the next Document mutation (the save effect runs).
C20_NoWriteUntilNextMutation ==
    [][/\ \A r \in puts : putFails(r) =>
             sync' = "error" /\ state' = state /\ cache' = cache
       /\ failure = "fresh" => PutIds(puts') \subseteq PutIds(puts)]_vars

\* C20 as amended: a failed remote write sets the status to error, leaves
\* the Document and the offline cache as they were and is not retried: the
\* failure sends nothing and makes no timer, so that until the next Document
\* mutation a remote write is sent only by a debounce timer that was pending
\* when the write failed.
C20_FailureIsNotRetried ==
    [][/\ \A r \in puts : putFails(r) =>
             /\ sync' = "error" /\ state' = state /\ cache' = cache
             /\ puts' = puts \ {r}
             /\ saveTimers' = saveTimers /\ debounced' = debounced
       /\ failure = "fresh" =>
             /\ PutIds(puts') \ PutIds(puts) \subseteq TimerIds(saveTimers)
             /\ failure' = "fresh" => TimerIds(saveTimers') \subseteq TimerIds(saveTimers)]_vars

\* a write failed after the last mutation, nothing was sent or scheduled
\* since, and more than the debounce delay has passed: the status is error,
\* the Document with its task is in the cache
C20_Witness ==
    /\ failure = "fresh" /\ sync = "error"
    /\ puts = {} /\ saveTimers = {}
    /\ quietMs = QuietCap
    /\ Len(state.tasks) = 1 /\ cache = <<state>>

\* what the app showed before the load answered, when nothing was changed
\* meanwhile: the cached Document, or DEFAULT_STATE
StartDocument == IF cache = <<>> THEN DEFAULT_STATE ELSE cache[1]

C22_LoadDiscardsNoMutation ==
    [][(loading /\ ~loading' /\ sync' = "idle")
          => \A i \in 1..Len(state.tasks) :
                Exists(LAMBDA t : t.id = state.tasks[i].id, state'.tasks)]_vars

Normalized(doc) ==
    /\ DOMAIN doc.courses = 1..Len(doc.courses)
    /\ DOMAIN doc.tasks = 1..Len(doc.tasks)
    /\ DOMAIN doc.grades = 1..Len(doc.grades)
    /\ TypeofNumber(doc.version)
    /\ doc.settings.semesterName # missing
    /\ doc.settings.weekStartsOn # undefined
    /\ doc.settings.theme # missing
    /\ doc.settings.defaultView # missing

\* C24: whatever object the load receives, the Document it sets has courses,
\* tasks and grades as sequences (the ones of the body, empty when the body
\* has none or a value that is no array), a numeric version (2 when the body
\* has none or one that is no number) and the four settings defined (the
\* ones of the body, else the defaults); the body is left as it was
C24_LoadNormalizes ==
    [][loadSucceeds =>
          LET data == GetBody
              arr(a) == IF a.kind = "array" THEN a.items ELSE <<>>
          IN  /\ Normalized(state')
              /\ state'.courses = arr(data.courses)
              /\ state'.tasks = arr(data.tasks)
              /\ state'.grades = arr(data.grades)
              /\ state'.version = (IF data.version \in {undefined, NotNumber}
                                   THEN 2 ELSE data.version)
              /\ data.settings.kind # "object" => state'.settings = DEFAULT_STATE.settings
              /\ data.settings.theme = missing => state'.settings.theme = "light"
              /\ data.settings.theme # missing => state'.settings.theme = data.settings.theme
              /\ remote' = remote]_vars

\* a body with a version that is no number, tasks that are no array and
\* partial settings has been loaded
C24_Witness ==
    /\ ~loading /\ sync = "idle" /\ effectPending
    /\ remote # <<>>
    /\ remote[1].version = NotNumber /\ remote[1].tasks.kind = "other"
    /\ remote[1].settings.kind = "object" /\ remote[1].settings.theme = missing
    /\ remote[1].settings.defaultView = "tasks"
    /\ state.version = 2 /\ state.tasks = <<>>
    /\ state.settings.theme = "light" /\ state.settings.defaultView = "tasks"

\* C25: the Document the load sets has weekStartsOn 0 or 1
C25_WeekStartsOnCoerced ==
    ~loading => state.settings.weekStartsOn \in {0, 1}

\* C26: merging the merged Document again gives the same Document, for the
\* merge of the load effect and for the merge of the earlier App, whatever
\* body the store holds; the Document in memory after the load is a fixed
\* point of the merge
C26_MergeIdempotent ==
    /\ GetBody.kind # "null" =>
          /\ Merged(Body(Merged(GetBody))) = Merged(GetBody)
          /\ LegacyMerged(LegacyMerged(GetBody)) = LegacyMerged(GetBody)
    /\ ~loading => Merged(Body(state)) = state

\* a body without version, with tasks that are no array and with one of the
\* settings has been loaded
C26_Witness ==
    /\ ~loading /\ sync = "idle" /\ effectPending
    /\ remote # <<>> /\ remote[1].kind = "object"
    /\ remote[1].version = undefined /\ remote[1].tasks.kind = "other"
    /\ remote[1].settings.kind = "object" /\ remote[1].settings.semesterName = "Fall"
    /\ remote[1].settings.theme = missing
    /\ state = Merged(remote[1])

C28_MalformedImportRejected ==
    [][\A file \in Files :
          (importJSON(file) /\ (~file.parses \/ file.value.kind # "object"))
              => alerted' /\ state' = state /\ effectPending' = effectPending]_vars

\* C29: saveTask with a blank title, addCourse with a blank name and
\* addGrade with a blank name show the error toast and leave the Document
\* unchanged; addCourse with a name puts the new course, under an id no
\* course has, at the head of the courses and changes nothing else
C29_BlankNamesRejected ==
    [][/\ \A f \in TaskForms :
             (trim(f.title) = ""
                 /\ (saveTaskRejected(f) \/ saveTaskEdit(f) \/ saveTaskNew(f)))
                 => state' = state /\ toast' = "error"
       /\ \A name \in CourseNameTexts, credits \in CreditsTexts :
             /\ (trim(name) = "" /\ (addCourseRejected(name) \/ addCourse(name, credits)))
                    => state' = state /\ toast' = "error"
             /\ (trim(name) # "" /\ addCourse(name, credits))
                    => /\ state'.courses # <<>>
                       /\ Tail(state'.courses) = state.courses
                       /\ Head(state'.courses).id \notin CourseIds(state)
                       /\ Head(state'.courses).name = trim(name)
                       /\ state'.tasks = state.tasks /\ state'.grades = state.grades
       /\ \A f \in GradeForms :
             (trim(f.name) = "" /\ (addGradeRejected(f) \/ addGradeAccepted(f)))
                 => state' = state /\ toast' = "error"]_vars

\* a second course was put before the first, and a form was rejected
C29_Witness ==
    /\ Len(state.courses) = 2
    /\ state.courses[1].id > state.courses[2].id
    /\ state.courses[1].name = "Calc II"
    /\ toast = "error"

\* C30: every grade item has a finite scoreTotal above 0: addGrade with a
\* total that is no finite number above 0, or with an earned score that is
\* no finite number, leaves the Document unchanged, and a derived item has
\* the pointsPossible of its task, which is above 0
C30_ScoreTotalPositive ==
    [][/\ \A i \in 1..Len(state'.grades) :
             LET g == state'.grades[i]
             IN  /\ IsNumber(g.scoreTotal) /\ g.scoreTotal > 0
                 /\ IsNumber(g.scoreEarned)
                 /\ g.taskId # undefined =>
                        \E j \in 1..Len(state'.tasks) :
                            /\ state'.tasks[j].id = g.taskId
                            /\ state'.tasks[j].pointsPossible = g.scoreTotal
       /\ \A f \in GradeForms :
             ((f.total = NaN \/ f.total <= 0 \/ f.earned = NaN)
                 /\ (addGradeRejected(f) \/ addGradeAccepted(f)))
                 => state' = state /\ toast' = "error"]_vars

\* a grade item typed in by hand and one derived from a task
C30_Witness ==
    /\ \E i \in 1..Len(state.grades) :
          state.grades[i].taskId = undefined /\ state.grades[i].scoreTotal = 250
    /\ \E i \in 1..Len(state.grades) :
          state.grades[i].taskId # undefined /\ state.grades[i].scoreTotal = 200
\* C31: a points text that is no number gives a task without pointsPossible
C31_NonNumericIsAbsent ==
    [][\A f \in TaskForms :
          (saveTaskNew(f) /\ parseInt(trim(f.points)) = NaN)
              => Head(state'.tasks).pointsPossible = undefined]_vars
\* the calendar day of the due date of t, and of today
DueDay(t) == DayOf(t.dueISO)
Today == DayOf(clock)

\* C32: by calendar days, overdue holds the open tasks due before today,
\* dueToday the open tasks due today, dueSoon the open tasks due after today
\* and at most 7 days from today
C32_BucketsByCalendarDay ==
    \A i \in 1..Len(state.tasks) :
        LET t == state.tasks[i]
            open == ~t.done /\ t.dueISO # undefined
        IN  /\ t \in Range(overdue) <=> (open /\ DueDay(t) < Today)
            /\ t \in Range(dueToday) <=> (open /\ DueDay(t) = Today)
            /\ t \in Range(dueSoon) <=> (open /\ Today < DueDay(t) /\ DueDay(t) <= Today + 7)

\* C33: in the earlier App dueSoon holds the open tasks due after today and
\* at most 3 days from today
C33_LegacyDueSoon ==
    \A i \in 1..Len(state.tasks) :
        LET t == state.tasks[i]
            open == ~t.done /\ t.dueISO # undefined
        IN  t \in Range(legacyDueSoon)
                <=> (open /\ Today < DueDay(t) /\ DueDay(t) <= Today + 3)
\* the rank of a priority
PriorityRank(t) == IF t.priority = "high" THEN 3 ELSE IF t.priority = "medium" THEN 2 ELSE 1

\* the tasks that pass the status, course and priority filters and the search
Passing ==
    {t \in Range(state.tasks) :
        /\ filterStatus = "all" \/ (filterStatus = "done") = t.done
        /\ \/ filterCourse = all
           \/ filterCourse = none /\ t.courseId = undefined
           \/ filterCourse = t.courseId
        /\ filterPriority = "all" \/ filterPriority = t.priority
        /\ includes(hay(t), toLowerCase(trim(search)))}

\* C34: the filtered task list is a permutation of the tasks passing every
\* filter and the search, in the order of the sort mode
C34_FilteredAndSorted ==
    LET F == filteredTasks
    IN  /\ Range(F) = Passing
        /\ Len(F) = Cardinality(Passing)
        /\ \A i \in 1..Len(F) : \A j \in (i + 1)..Len(F) :
              CASE sortMode = "due" ->
                      \/ F[j].dueISO = undefined
                      \/ F[i].dueISO # undefined /\ F[i].dueISO <= F[j].dueISO
                [] sortMode = "priority" -> PriorityRank(F[i]) >= PriorityRank(F[j])
                [] sortMode = "created" -> F[i].createdISO >= F[j].createdISO

\* a search and three filters are set, and the list shows some tasks and
\* hides others
C34_Witness ==
    /\ search = " HW "
    /\ filterStatus = "open"
    /\ filterPriority = "high"
    /\ filterCourse = 1
    /\ sortMode = "priority"
    /\ Len(filteredTasks) = 1
    /\ clock > 24
\* the sum of f over the GradeItems of `grades` in the set of positions I
RECURSIVE SumAt(_, _, _)
SumAt(f, grades, I) ==
    IF I = {} THEN 0
    ELSE LET i == CHOOSE i \in I : TRUE
         IN  f[grades[i]] + SumAt(f, grades, I \ {i})

\* the raw aggregates of a grades list: bucket entries without the weighted
\* sums, and the overall sums
RawStats(grades) ==
    LET st == gradeStats(grades)
    IN  [byCourse |-> [k \in DOMAIN st.byCourse |->
                          <<st.byCourse[k].earned, st.byCourse[k].total>>],
         overall |-> <<st.overallEarned, st.overallTotal>>]

\* C35: each bucket of gradeStats holds the sums of scoreEarned and scoreTotal
\* of its GradeItems, the overall totals are the sums over all GradeItems, the
\* weighted sums run over the items with a weight, and no change of a weight
\* changes a raw value
C35_GradeStatsSums ==
    LET grades == state.grades
        st == gradeStats(grades)
        All == 1..Len(grades)
        In(k) == {i \in All : (IF grades[i].courseId = undefined THEN none
                                ELSE grades[i].courseId) = k}
        Declared(k) == {i \in In(k) : grades[i].weight # undefined}
        items == Range(grades)
        earned == [g \in items |-> g.scoreEarned]
        total == [g \in items |-> g.scoreTotal]
        weight == [g \in items |-> g.weight]
        part == [g \in items |-> IF g.weight = undefined THEN 0 ELSE weighted(g)]
    IN  /\ DOMAIN st.byCourse = {k \in {none} \cup Ids : In(k) # {}}
        /\ \A k \in DOMAIN st.byCourse :
              /\ st.byCourse[k].earned = SumAt(earned, grades, In(k))
              /\ st.byCourse[k].total = SumAt(total, grades, In(k))
              /\ st.byCourse[k].weightedTotal = SumAt(weight, grades, Declared(k))
              /\ st.byCourse[k].weightedEarned = SumAt(part, grades, Declared(k))
        /\ st.overallEarned = SumAt(earned, grades, All)
        /\ st.overallTotal = SumAt(total, grades, All)
        /\ \A i \in All : \A w \in {undefined, 2500, 5000} :
              RawStats([grades EXCEPT ![i].weight = w]) = RawStats(grades)

\* two GradeItems in one bucket, one with a weight and one without
C35_Witness ==
    /\ Len(state.grades) = 2
    /\ state.grades[1].courseId = state.grades[2].courseId
    /\ \E i \in 1..2 : state.grades[i].weight # undefined
    /\ \E i \in 1..2 : state.grades[i].weight = undefined
C37_ServerMirrorsClient ==
    \A i \in 1..Len(remote) :
        LET b == remote[i]
        IN  (PutAccepts(b) /\ b.kind = "object") => PutStored(b) = Body(Merged(b))
\* C38: no PUT without a mutation: from the end of the load until the first
\* mutation of the Document no PUT is scheduled or sent, and after a failed
\* load the status stays offline
C38_NoWriteBeforeMutation ==
    (~loading /\ nextId = 1) => (saveTimers = {} /\ puts = {})

\* C39: while a debounce timer is pending or a PUT is in flight, the status
\* is saving
C39_SavingWhilePending ==
    (saveTimers # {} \/ puts # {}) => sync = "saving"
\* C40: no two GradeItems of the Document are linked to the same task
C40_OneGradePerTask ==
    \A i \in 1..Len(state.grades) : \A j \in 1..Len(state.grades) :
        (i # j /\ state.grades[i].taskId # undefined)
            => state.grades[i].taskId # state.grades[j].taskId

\* a done task with the GradeItem linked to it, next to a second GradeItem
C40_Witness ==
    /\ Len(state.grades) = 2
    /\ \E i \in 1..2 :
          /\ state.grades[i].taskId # undefined
          /\ Exists(LAMBDA t : t.id = state.grades[i].taskId /\ t.done, state.tasks)
=============================================================================
